---- MODULE Spec2Model ----
(***************************************************************************)
(* Model of the business-scraper aggregation pipeline: the /api/analyze    *)
(* orchestrator (app/routes/analyze.py), listing discovery                 *)
(* (app/scrapers/google_maps.py), the website profile extractor            *)
(* (app/scrapers/website.py) and the two Groq assessment clients           *)
(* (app/analyzers/ai_analyzer.py, app/analyzers/website_grader.py).        *)
(*                                                                         *)
(* Representation of Python values:                                        *)
(*   - a dict is a function whose DOMAIN is its set of keys;               *)
(*   - None is the string "None" in a scalar slot and the record NoneObj   *)
(*     in a slot that otherwise holds a dict;                              *)
(*   - text that the code scans (strip, splitlines, int()) is a sequence   *)
(*     of one-token strings;                                               *)
(*   - a JSON value is a tagged record [jt |-> kind, jv |-> content], a JSON *)
(*     number being kept in tenths (75 is 7.5).                            *)
(***************************************************************************)
EXTENDS Integers, Sequences, FiniteSets, TLC

\* ------------------------------------------------------------------------
\* Bounds of the model
\* ------------------------------------------------------------------------

\* Largest number of listing links the results feed exposes.
MaxListings == 2

\* ------------------------------------------------------------------------
\* Python values
\* ------------------------------------------------------------------------

None == "None"

NoneObj == [py_none |-> TRUE]

EmptyDict == [k \in {} |-> None]

\* bool(d) of a dict-or-None value.
Truthy(d) == d # NoneObj /\ DOMAIN d # {}

\* d.get(k, default)
Get(d, k, default) == IF k \in DOMAIN d THEN d[k] ELSE default

\* dict(raw) updated with d2's keys: the keys of both, d2's values winning.
Merged(d1, d2) ==
    [k \in DOMAIN d1 \cup DOMAIN d2 |-> IF k \in DOMAIN d2 THEN d2[k] ELSE d1[k]]

Whitespace == {" ", "\n", "\t"}

RECURSIVE LStrip(_)
LStrip(s) == IF s # <<>> /\ Head(s) \in Whitespace THEN LStrip(Tail(s)) ELSE s

RECURSIVE RStrip(_)
RStrip(s) ==
    IF s # <<>> /\ s[Len(s)] \in Whitespace
    THEN RStrip(SubSeq(s, 1, Len(s) - 1))
    ELSE s

\* str.strip()
Strip(s) == RStrip(LStrip(s))

\* Outcome of a call: a returned value or a raised exception.
Returned(v) == [exc |-> "", val |-> v]

Raised(e) == [exc |-> e, val |-> NoneObj]

\* JSON values
JNull == [jt |-> "null", jv |-> 0]

JNum(tenths) == [jt |-> "num", jv |-> tenths]

JStr(s) == [jt |-> "str", jv |-> s]

JList(s) == [jt |-> "list", jv |-> s]

JObj(f) == [jt |-> "obj", jv |-> f]

Digits == ("0" :> 0) @@ ("1" :> 1) @@ ("2" :> 2) @@ ("3" :> 3) @@ ("4" :> 4)
          @@ ("5" :> 5) @@ ("6" :> 6) @@ ("7" :> 7) @@ ("8" :> 8) @@ ("9" :> 9)

RECURSIVE DigitsValue(_)
DigitsValue(s) ==
    IF s = <<>> THEN 0
    ELSE 10 * DigitsValue(SubSeq(s, 1, Len(s) - 1)) + Digits[s[Len(s)]]

AllDigits(s) == s # <<>> /\ \A i \in 1..Len(s) : s[i] \in DOMAIN Digits

\* Truncation toward zero of a number kept in tenths.
Trunc(tenths) == IF tenths >= 0 THEN tenths \div 10 ELSE -((-tenths) \div 10)

\* int(x) of a JSON value: an integer, a float (truncated toward zero), a
\* string holding an optionally signed integer literal; anything else raises.
PyInt(j) ==
    IF j.jt = "num" THEN Returned(Trunc(j.jv))
    ELSE IF j.jt = "str" THEN
        LET s == Strip(j.jv)
            neg == s # <<>> /\ Head(s) = "-"
            body == IF neg THEN Tail(s) ELSE s
        IN  IF AllDigits(body)
            THEN Returned(IF neg THEN -DigitsValue(body) ELSE DigitsValue(body))
            ELSE Raised("ValueError")
    ELSE Raised("TypeError")

\* float(x) of a JSON value, in tenths: a number, a string holding a decimal
\* literal with at most one fractional digit; anything else raises.
PyFloat(j) ==
    IF j.jt = "num" THEN Returned(j.jv)
    ELSE IF j.jt = "str" THEN
        LET s == Strip(j.jv)
            neg == s # <<>> /\ Head(s) = "-"
            body == IF neg THEN Tail(s) ELSE s
            dot == {i \in 1..Len(body) : body[i] = "."}
            sign == IF neg THEN -1 ELSE 1
        IN  IF AllDigits(body) THEN Returned(sign * 10 * DigitsValue(body))
            ELSE IF /\ Cardinality(dot) = 1
                    /\ \E i \in dot :
                         /\ AllDigits(SubSeq(body, 1, i - 1))
                         /\ i = Len(body) - 1
                         /\ body[Len(body)] \in DOMAIN Digits
            THEN Returned(sign * (10 * DigitsValue(SubSeq(body, 1, Len(body) - 2))
                                   + Digits[body[Len(body)]]))
            ELSE Raised("ValueError")
    ELSE Raised("TypeError")

Min(S) == CHOOSE x \in S : \A y \in S : x <= y

Take(s, n) == SubSeq(s, 1, IF Len(s) < n THEN Len(s) ELSE n)

\* ------------------------------------------------------------------------
\* app/scrapers/website.py
\* ------------------------------------------------------------------------

\* The rendered page as BeautifulSoup exposes it to the extractors:
\*   title, description   text of <title>, content of meta description ("" if none)
\*   h1                   stripped texts of the <h1> elements, in document order
\*   viewport             a meta viewport tag is present
\*   imgs                 the <img> elements, [src, alt]
\*   anchors              the <a href> elements, [href, host, text]
\*   cta                  texts of the button/a elements carrying a class
\*   service_items        item texts under service-keyword headings
\*   team_items           item texts under team-keyword headings
\*   text                 soup.get_text(), one character per element

ImgCap == 50

LinkCap == 100

CtaCap == 10

ServiceCap == 20

PriceCap == 20

TeamCap == 15

ContextChars == 50

\* _empty_website_data(url)
EmptyWebsiteData(url) ==
    [url |-> url, services |-> <<>>, prices |-> <<>>, team_members |-> <<>>,
     meta_title |-> "", meta_description |-> "", h1_tags |-> <<>>,
     images |-> <<>>, links |-> <<>>, has_mobile_viewport |-> FALSE,
     cta_buttons |-> <<>>, text_length |-> 0]

SeqRange(s) == {s[i] : i \in 1..Len(s)}

RECURSIVE Dedup(_)
Dedup(s) ==
    IF s = <<>> THEN <<>>
    ELSE LET init == Dedup(SubSeq(s, 1, Len(s) - 1))
         IN  IF s[Len(s)] \in SeqRange(init) THEN init ELSE Append(init, s[Len(s)])

Reverse(s) == [i \in 1..Len(s) |-> s[Len(s) + 1 - i]]

\* Iteration orders of a Python set differ from process to process (string
\* hashing is seeded per process) and are fixed within one process.
HashSeeds == {"seed_a", "seed_b"}

\* list(set(items)) in a process running under seed: the distinct items, in
\* an order the seed decides.
ListOfSet(items, seed) == IF seed = "seed_a" THEN Dedup(items) ELSE Reverse(Dedup(items))

\* _extract_services: the collected item texts of length 6..99, unique, capped.
\* An item is [text, len], len being the length of its text.
ExtractServices(page, seed) ==
    LET kept == SelectSeq(page.service_items, LAMBDA it : 5 < it.len /\ it.len < 100)
    IN  Take(ListOfSet([i \in 1..Len(kept) |-> kept[i].text], seed), ServiceCap)

\* _extract_team: items holding a title abbreviation, or of length 6..99 and
\* not starting with "$"; unique, capped.
ExtractTeam(page, seed) ==
    LET kept == SelectSeq(page.team_items,
                          LAMBDA it : it.titled \/ (5 < it.len /\ it.len < 100 /\ ~it.dollar))
    IN  Take(ListOfSet([i \in 1..Len(kept) |-> kept[i].text], seed), TeamCap)

\* _extract_cta_buttons: texts containing a call-to-action keyword; unique, capped.
ExtractCtaButtons(page, seed) ==
    LET kept == SelectSeq(page.cta, LAMBDA it : it.keyword)
    IN  Take(ListOfSet([i \in 1..Len(kept) |-> kept[i].text], seed), CtaCap)

PriceDigit(c) == c \in DOMAIN Digits \/ c = ","

\* End (inclusive) of the longest run of [\d,] starting at i; i - 1 if none.
RECURSIVE RunEnd(_, _)
RunEnd(text, i) ==
    IF i <= Len(text) /\ PriceDigit(text[i]) THEN RunEnd(text, i + 1) ELSE i - 1

\* End (inclusive) of the match of \$[\d,]+(?:\.\d{2})? starting at i; 0 if none.
PriceMatchEnd(text, i) ==
    IF text[i] # "$" THEN 0
    ELSE LET e == RunEnd(text, i + 1)
         IN  IF e < i + 1 THEN 0
             ELSE IF /\ e + 3 <= Len(text)
                     /\ text[e + 1] = "."
                     /\ text[e + 2] \in DOMAIN Digits
                     /\ text[e + 3] \in DOMAIN Digits
             THEN e + 3
             ELSE e

\* re.finditer: the non-overlapping matches from position i on, left to right,
\* each as [first, last].
RECURSIVE PriceMatches(_, _)
PriceMatches(text, i) ==
    IF i > Len(text) THEN <<>>
    ELSE LET e == PriceMatchEnd(text, i)
         IN  IF e = 0 THEN PriceMatches(text, i + 1)
             ELSE <<[first |-> i, last |-> e]>> \o PriceMatches(text, e + 1)

\* _extract_prices: every match with the text around it, capped.
ExtractPrices(page) ==
    LET text == page.text
        ms == PriceMatches(text, 1)
        entry(m) ==
            LET start == IF m.first - 1 - ContextChars > 0
                         THEN m.first - 1 - ContextChars ELSE 0
                end == IF m.last + ContextChars < Len(text)
                       THEN m.last + ContextChars ELSE Len(text)
            IN  [price |-> SubSeq(text, m.first, m.last),
                 context |-> Strip(SubSeq(text, start + 1, end))]
    IN  Take([k \in 1..Len(ms) |-> entry(ms[k])], PriceCap)

\* _extract_h1_tags: the non-empty <h1> texts.
ExtractH1Tags(page) == SelectSeq(page.h1, LAMBDA h : h # "")

\* _extract_images: the first 50 <img>, those with a src.
ExtractImages(page) ==
    LET firsts == SelectSeq(Take(page.imgs, ImgCap), LAMBDA img : img.src # "")
    IN  [i \in 1..Len(firsts) |->
            [src |-> firsts[i].src, alt |-> firsts[i].alt, has_alt |-> firsts[i].alt # ""]]

\* urlparse(url).netloc of the URLs of the model.
HostOf ==
    ("https://glow.example" :> "glow.example") @@ ("http://zen.example" :> "zen.example")

\* _extract_links: of the first 100 <a href>, those on the host of the page.
ExtractLinks(page, url) ==
    LET firsts == SelectSeq(Take(page.anchors, LinkCap),
                            LAMBDA a : a.href # "" /\ a.host = HostOf[url])
    IN  [i \in 1..Len(firsts) |-> [url |-> firsts[i].href, text |-> firsts[i].text]]

\* len(soup.get_text(strip=True)): the text chunks of the page are stripped before
\* they are joined; the text of the model is one chunk.
TextLength(page) == Len(Strip(page.text))

\* _parse_website_content(html, url), in a process running under seed.
\* A page the parser cannot handle raises.
ParseWebsiteContent(page, url, seed) ==
    IF page.unparseable THEN Raised("Exception")
    ELSE Returned(
        [url |-> url,
         services |-> ExtractServices(page, seed),
         prices |-> ExtractPrices(page),
         team_members |-> ExtractTeam(page, seed),
         meta_title |-> page.title,
         meta_description |-> page.description,
         h1_tags |-> ExtractH1Tags(page),
         images |-> ExtractImages(page),
         links |-> ExtractLinks(page, url),
         has_mobile_viewport |-> page.viewport,
         cta_buttons |-> ExtractCtaButtons(page, seed),
         text_length |-> TextLength(page)])

\* What the world does to one scrape_website call:
\*   playwright  the playwright import succeeds
\*   fetch       "ok", or the step of the browser session that raises
\*   page        the page fetched
\*   seed        the hash seed of the serving process
FetchOutcomes == {"ok", "launch_error", "goto_timeout", "content_error"}

\* A scrape_website whose parsing is outside the try statement.
ScrapeWebsite_ParseEscapes(url, env) ==
    IF ~env.playwright THEN Returned(EmptyWebsiteData(url))
    ELSE IF env.fetch # "ok" THEN Returned(EmptyWebsiteData(url))
    ELSE ParseWebsiteContent(env.page, url, env.seed)

\* scrape_website(url): never lets an exception out.
ScrapeWebsite(url, env) ==
    IF ~env.playwright THEN Returned(EmptyWebsiteData(url))
    ELSE IF env.fetch # "ok" THEN Returned(EmptyWebsiteData(url))
    ELSE LET parsed == ParseWebsiteContent(env.page, url, env.seed)
         IN  IF parsed.exc # "" THEN Returned(EmptyWebsiteData(url)) ELSE parsed

\* ------------------------------------------------------------------------
\* app/analyzers/ai_analyzer.py, app/analyzers/website_grader.py
\* ------------------------------------------------------------------------

\* The three-backquote marker of a fenced code block, one element of a text.
Fence == "<fence>"

\* str.splitlines() of a text whose line breaks are "\n" elements.
RECURSIVE SplitLines(_)
SplitLines(s) ==
    IF s = <<>> THEN <<>>
    ELSE LET nl == {i \in 1..Len(s) : s[i] = "\n"}
         IN  IF nl = {} THEN <<s>>
             ELSE <<SubSeq(s, 1, Min(nl) - 1)>> \o SplitLines(SubSeq(s, Min(nl) + 1, Len(s)))

\* "\n".join(lines)
RECURSIVE JoinLines(_)
JoinLines(lines) ==
    IF lines = <<>> THEN <<>>
    ELSE IF Len(lines) = 1 THEN lines[1]
    ELSE lines[1] \o <<"\n">> \o JoinLines(Tail(lines))

\* The fence stripping that opens _parse_analysis and _parse_grade.
StripFences(content) ==
    LET c == Strip(content)
    IN  IF c # <<>> /\ Head(c) = Fence
        THEN Strip(JoinLines(SelectSeq(SplitLines(c),
                                       LAMBDA line : ~(line # <<>> /\ Head(line) = Fence))))
        ELSE c

JS(s) == JStr(s)

\* The JSON texts a reply may carry, each one element of the content, with the
\* value json.loads gives it.  Any other element is text that is not JSON.
Payloads ==
    ("{analysis}" :> JObj([revenue_streams |-> JList(<<JS("memberships"), JS("retail")>>),
                           estimated_revenue_tier |-> JS("Medium"),
                           pricing_strategy |-> JS("Premium"),
                           service_quality_score |-> JNum(75),
                           competitive_assessment |-> JS("strong"),
                           niche_specific_insights |-> JS("injectables")]))
    @@ ("{streams}" :> JObj([revenue_streams |-> JList(<<JS("memberships")>>)]))
    @@ ("{score_8.5}" :> JObj([service_quality_score |-> JS(<<"8", ".", "5">>),
                                 total_score |-> JS(<<"8", ".", "5">>)]))
    @@ ("{score_high}" :> JObj([service_quality_score |-> JS(<<"h", "i", "g", "h">>),
                                  total_score |-> JS(<<"h", "i", "g", "h">>)]))
    @@ ("{score_null}" :> JObj([service_quality_score |-> JNull, seo_score |-> JNull]))
    @@ ("{grade}" :> JObj([total_score |-> JNum(750), design_score |-> JNum(380),
                           seo_score |-> JNum(370),
                           strengths |-> JList(<<JS("fast")>>),
                           weaknesses |-> JList(<<JS("no alt text")>>),
                           recommendations |-> JList(<<JS("add alt text")>>)]))
    @@ ("{grade_150}" :> JObj([total_score |-> JNum(1500), design_score |-> JNum(-50),
                               seo_score |-> JNum(755)]))
    @@ ("{}" :> JObj(EmptyDict))
    @@ ("[list]" :> JList(<<JS("memberships")>>))
    @@ ("42" :> JNum(420))
    @@ ("null" :> JNull)

\* json.loads(text): one JSON text, white space around it allowed.
JsonLoads(text) ==
    LET body == Strip(text)
    IN  IF Len(body) = 1 /\ body[1] \in DOMAIN Payloads
        THEN Returned(Payloads[body[1]])
        ELSE Raised("JSONDecodeError")

\* _empty_analysis()
EmptyAnalysis ==
    [revenue_streams |-> JList(<<>>), estimated_revenue_tier |-> JNull,
     pricing_strategy |-> JNull, service_quality_score |-> JNull,
     competitive_assessment |-> JNull, niche_specific_insights |-> JNull]

\* _empty_grade(); a Python int is [jt |-> "int", jv |-> n].
PInt(n) == [jt |-> "int", jv |-> n]

EmptyGrade ==
    [total_score |-> PInt(0), design_score |-> PInt(0), seo_score |-> PInt(0),
     strengths |-> JList(<<>>), weaknesses |-> JList(<<>>),
     recommendations |-> JList(<<>>)]

\* _parse_analysis(content): data.get on a value that is no dict, and float()
\* of a value that is no number, raise.
ParseAnalysis(content) ==
    LET loaded == JsonLoads(StripFences(content))
    IN  IF loaded.exc # "" THEN loaded
        ELSE IF loaded.val.jt # "obj" THEN Raised("AttributeError")
        ELSE LET data == loaded.val.jv
                 score == PyFloat(Get(data, "service_quality_score", JNum(0)))
             IN  IF score.exc # "" THEN score
                 ELSE Returned(
                     [revenue_streams |-> Get(data, "revenue_streams", JList(<<>>)),
                      estimated_revenue_tier |->
                          Get(data, "estimated_revenue_tier", JS("Unknown")),
                      pricing_strategy |-> Get(data, "pricing_strategy", JS("Unknown")),
                      service_quality_score |-> JNum(score.val),
                      competitive_assessment |-> Get(data, "competitive_assessment", JS("")),
                      niche_specific_insights |->
                          Get(data, "niche_specific_insights", JS(""))])

\* _parse_grade(content)
ParseGrade(content) ==
    LET loaded == JsonLoads(StripFences(content))
    IN  IF loaded.exc # "" THEN loaded
        ELSE IF loaded.val.jt # "obj" THEN Raised("AttributeError")
        ELSE LET data == loaded.val.jv
                 total == PyInt(Get(data, "total_score", JNum(0)))
                 design == PyInt(Get(data, "design_score", JNum(0)))
                 seo == PyInt(Get(data, "seo_score", JNum(0)))
             IN  IF total.exc # "" THEN total
                 ELSE IF design.exc # "" THEN design
                 ELSE IF seo.exc # "" THEN seo
                 ELSE Returned(
                     [total_score |-> PInt(total.val),
                      design_score |-> PInt(design.val),
                      seo_score |-> PInt(seo.val),
                      strengths |-> Get(data, "strengths", JList(<<>>)),
                      weaknesses |-> Get(data, "weaknesses", JList(<<>>)),
                      recommendations |-> Get(data, "recommendations", JList(<<>>))])

\* What the remote scoring service does to one POST:
\*   kind     "exception" (requests raises), or "response"
\*   status   the HTTP status of the response
\*   body     the shape of the response body: "not_json", "list" (a JSON array),
\*            "no_choices", "empty_choices", "no_message", "null_content",
\*            or "content" with the message content in content
BodyShapes ==
    {"not_json", "list", "no_choices", "empty_choices", "no_message",
     "null_content", "content"}

\* response.json()["choices"][0]["message"]["content"]
ReadContent(reply) ==
    CASE reply.body = "not_json" -> Raised("JSONDecodeError")
      [] reply.body = "list" -> Raised("TypeError")
      [] reply.body = "no_choices" -> Raised("KeyError")
      [] reply.body = "empty_choices" -> Raised("IndexError")
      [] reply.body = "no_message" -> Raised("KeyError")
      [] reply.body = "null_content" -> Raised("AttributeError")
      [] OTHER -> Returned(reply.content)

\* The exceptions the except clauses of the clients name.
CaughtByClient == {"RequestException", "KeyError", "IndexError", "JSONDecodeError"}

\* The try block of analyze_business and grade_website: one POST, the status
\* check, the envelope, the parse; the named exceptions give the empty result.
\* The outcome carries the number of requests issued.
PostAndParse(reply, parser, empty) ==
    LET result ==
            IF reply.kind = "exception" THEN Raised("RequestException")
            ELSE IF reply.status # 200 THEN Returned(empty)
            ELSE LET content == ReadContent(reply)
                 IN  IF content.exc # "" THEN content
                     ELSE IF parser = "analysis" THEN ParseAnalysis(content.val)
                     ELSE ParseGrade(content.val)
        handled == IF result.exc \in CaughtByClient THEN Returned(empty) ELSE result
    IN  [exc |-> handled.exc, val |-> handled.val, requests |-> 1]

NoRequest(outcome) == [exc |-> outcome.exc, val |-> outcome.val, requests |-> 0]

\* _build_prompt(data, niche): ", ".join over the services, the prices and the
\* team; str.join raises on an item that is no str, and a price is a dict.
BuildPrompt(data, niche) ==
    IF Get(data, "prices", <<>>) # <<>> THEN Raised("TypeError")
    ELSE Returned([niche |-> niche,
                   name |-> Get(data, "name", "Unknown"),
                   services |-> IF Get(data, "services", <<>>) = <<>>
                                THEN <<"unknown">> ELSE data["services"],
                   team |-> IF Get(data, "team_members", <<>>) = <<>>
                            THEN <<"unknown">> ELSE data["team_members"]])

\* An analyze_business that does not look at the credential.
AnalyzeBusiness_PostsFirst(api_key, data, niche, reply) ==
    LET prompt == BuildPrompt(data, niche)
    IN  IF prompt.exc # "" THEN NoRequest(prompt)
        ELSE PostAndParse(reply, "analysis", EmptyAnalysis)

\* analyze_business(business_data, niche) with credential api_key.
AnalyzeBusiness(api_key, data, niche, reply) ==
    IF api_key = "" THEN NoRequest(Returned(EmptyAnalysis))
    ELSE LET prompt == BuildPrompt(data, niche)
         IN  IF prompt.exc # "" THEN NoRequest(prompt)
             ELSE PostAndParse(reply, "analysis", EmptyAnalysis)

\* grade_website(website_data) with credential api_key.
GradeWebsite(api_key, website_data, reply) ==
    IF api_key = "" THEN NoRequest(Returned(EmptyGrade))
    ELSE IF ~Truthy(website_data) \/ Get(website_data, "url", "") = ""
    THEN NoRequest(Returned(EmptyGrade))
    ELSE PostAndParse(reply, "grade", EmptyGrade)

\* ------------------------------------------------------------------------
\* app/scrapers/google_maps.py
\* ------------------------------------------------------------------------

\* The detail panels a click can open: what _extract_business_details reads.
GlowPanel ==
    [h1 |-> "Glow Medspa", rating |-> "4.8", reviews_count |-> "120",
     address |-> "1 Main St", phone |-> "555-0100",
     website |-> "https://glow.example", hours |-> None]

ZenPanel ==
    [h1 |-> "Zen Spa", rating |-> None, reviews_count |-> None,
     address |-> None, phone |-> None, website |-> None, hours |-> None]

NoNamePanel ==
    [h1 |-> "", rating |-> None, reviews_count |-> None,
     address |-> "2 Side St", phone |-> None, website |-> None, hours |-> None]

Panels == {GlowPanel, ZenPanel, NoNamePanel}

\* The listing identifiers: href "/maps/place/<k>" is the number k, and 0 is the
\* href of a link without one.
Hrefs == 1..MaxListings

\* A listing link of the feed: reading its href may raise; its click may raise;
\* otherwise the click opens a panel.
Listings ==
    [href : Hrefs, attr : {"ok"}, click : {"ok"}, panel : Panels]
    \cup [href : Hrefs, attr : {"ok"}, click : {"raise"}, panel : {NoNamePanel}]
    \cup [href : {0}, attr : {"raise"}, click : {"raise"}, panel : {NoNamePanel}]

\* _extract_business_details(page): the seven keys, the missing ones None.
ExtractBusinessDetails(panel) ==
    [name |-> panel.h1, rating |-> panel.rating, reviews_count |-> panel.reviews_count,
     address |-> panel.address, phone |-> panel.phone, website |-> panel.website,
     hours |-> panel.hours]

\* The state of the listing loop: the results, the hrefs seen, whether the loop
\* is over, and (for the record) the listing each result came from and the
\* listings clicked.
LoopStart ==
    [results |-> <<>>, seen_hrefs |-> {}, over |-> FALSE, origins |-> <<>>,
     clicked |-> <<>>]

\* A loop that stops only once the results exceed max_results.
ListingStep_OverLimit(st, listing, k, max_results) ==
    IF Len(st.results) > max_results THEN [st EXCEPT !.over = TRUE]
    ELSE IF listing.attr = "raise" THEN [st EXCEPT !.over = TRUE]
    ELSE IF listing.href \in st.seen_hrefs THEN st
    ELSE LET seen == [st EXCEPT !.seen_hrefs = @ \cup {listing.href},
                                !.clicked = Append(@, k)]
         IN  IF listing.click = "raise" THEN seen
             ELSE LET business == ExtractBusinessDetails(listing.panel)
                  IN  IF business.name # ""
                      THEN [seen EXCEPT !.results = Append(@, business),
                                        !.origins = Append(@, k)]
                      ELSE seen

\* A loop that opens a listing whatever hrefs it has seen.
ListingStep_NoDedupe(st, listing, k, max_results) ==
    IF Len(st.results) >= max_results THEN [st EXCEPT !.over = TRUE]
    ELSE IF listing.attr = "raise" THEN [st EXCEPT !.over = TRUE]
    ELSE LET seen == [st EXCEPT !.seen_hrefs = @ \cup {listing.href},
                                !.clicked = Append(@, k)]
         IN  IF listing.click = "raise" THEN seen
             ELSE LET business == ExtractBusinessDetails(listing.panel)
                  IN  IF business.name # ""
                      THEN [seen EXCEPT !.results = Append(@, business),
                                        !.origins = Append(@, k)]
                      ELSE seen

\* One iteration of "for listing in listings" for the listing at position k.
ListingStep(st, listing, k, max_results) ==
    IF Len(st.results) >= max_results THEN [st EXCEPT !.over = TRUE]
    ELSE IF listing.attr = "raise" THEN [st EXCEPT !.over = TRUE]
    ELSE IF listing.href \in st.seen_hrefs THEN st
    ELSE LET seen == [st EXCEPT !.seen_hrefs = @ \cup {listing.href},
                                !.clicked = Append(@, k)]
         IN  IF listing.click = "raise" THEN seen
             ELSE LET business == ExtractBusinessDetails(listing.panel)
                  IN  IF business.name # ""
                      THEN [seen EXCEPT !.results = Append(@, business),
                                        !.origins = Append(@, k)]
                      ELSE seen

RECURSIVE ListingLoop(_, _, _, _)
ListingLoop(st, listings, k, max_results) ==
    IF k > Len(listings) \/ st.over THEN st
    ELSE ListingLoop(ListingStep(st, listings[k], k, max_results), listings, k + 1,
                     max_results)

\* What the world does to one scrape_google_maps call:
\*   playwright  the playwright import succeeds
\*   browser     "ok", "error" (launch or navigation raises) or "no_feed"
\*               (the results feed never shows)
\*   listings    the listing links of the feed
BrowserOutcomes == {"ok", "error", "no_feed"}

FeedsUpTo(n) == UNION {[1..k -> Listings] : k \in 0..n}

\* scrape_google_maps(niche, location, max_results): the list it returns.
ScrapeGoogleMaps(max_results, env) ==
    IF ~env.playwright \/ env.browser # "ok" THEN <<>>
    ELSE ListingLoop(LoopStart, env.listings, 1, max_results).results

\* ------------------------------------------------------------------------
\* app/scrapers/instagram.py, app/scrapers/utils.py
\* ------------------------------------------------------------------------

\* The posts _calculate_engagement looks at.
RecentPosts == 12

RECURSIVE SumOf(_)
SumOf(s) == IF s = <<>> THEN 0 ELSE Head(s) + SumOf(Tail(s))

\* round(num / den * 100, 2) in hundredths, num >= 0 and den > 0: the nearest
\* hundredth, a tie going to the even one.
RoundedPercent(num, den) ==
    LET n == 10000 * num
        q == n \div den
        r == n % den
    IN  IF 2 * r < den THEN q
        ELSE IF 2 * r > den THEN q + 1
        ELSE IF q % 2 = 0 THEN q ELSE q + 1

\* A profile as _calculate_engagement meets it: followers (a profile without a
\* count is one with 0: both are falsy), the posts most recent first, each [likes, comments], and raise_at, the position
\* of the post whose fetch raises (0 if none does).
\* The posts the loop fetches: one more than it keeps, if there is one.
Fetched(profile) ==
    IF Len(profile.posts) > RecentPosts THEN RecentPosts + 1 ELSE Len(profile.posts)

\* An engagement rate over every post of the profile.
CalculateEngagement_AllPosts(profile) ==
    IF profile.followers = 0 THEN 0
    ELSE IF profile.raise_at \in 1..Fetched(profile) THEN 0
    ELSE LET kept == profile.posts
             likes_list == [i \in 1..Len(kept) |-> kept[i].likes]
             comments_list == [i \in 1..Len(kept) |-> kept[i].comments]
         IN  IF likes_list = <<>> THEN 0
             ELSE RoundedPercent(SumOf(likes_list) + SumOf(comments_list),
                                 Len(kept) * profile.followers)

\* _calculate_engagement(profile), the rate in hundredths.
CalculateEngagement(profile) ==
    IF profile.followers = 0 THEN 0
    ELSE IF profile.raise_at \in 1..Fetched(profile) THEN 0
    ELSE LET kept == Take(profile.posts, RecentPosts)
             likes_list == [i \in 1..Len(kept) |-> kept[i].likes]
             comments_list == [i \in 1..Len(kept) |-> kept[i].comments]
         IN  IF likes_list = <<>> THEN 0
             ELSE RoundedPercent(SumOf(likes_list) + SumOf(comments_list),
                                 Len(kept) * profile.followers)

\* str.lower() on the letters of the names below.
UpperCase ==
    <<"A", "B", "C", "D", "E", "F", "G", "H", "I", "J", "K", "L", "M", "N", "O", "P", "Q",
      "R", "S", "T", "U", "V", "W", "X", "Y", "Z">>

LowerCase ==
    <<"a", "b", "c", "d", "e", "f", "g", "h", "i", "j", "k", "l", "m", "n", "o", "p", "q",
      "r", "s", "t", "u", "v", "w", "x", "y", "z">>

LowerChar(c) ==
    IF \E i \in 1..Len(UpperCase) : UpperCase[i] = c
    THEN LowerCase[CHOOSE i \in 1..Len(UpperCase) : UpperCase[i] = c]
    ELSE c

Lower(text) == [i \in 1..Len(text) |-> LowerChar(text[i])]

\* [a-zA-Z0-9]
AlphaNumeric(c) ==
    \/ \E i \in 1..Len(LowerCase) : LowerCase[i] = c \/ UpperCase[i] = c
    \/ c \in DOMAIN Digits

\* The alternatives of the pattern of line 46, in its order.
CommonWords ==
    <<<<"t", "h", "e">>, <<"a">>, <<"a", "n">>, <<"a", "n", "d">>, <<"o", "r">>,
      <<"o", "f">>, <<"i", "n">>, <<"a", "t">>, <<"f", "o", "r">>, <<"l", "l", "c">>,
      <<"i", "n", "c">>, <<"c", "o">>, <<"c", "o", "r", "p">>>>

StartsWith(text, i, word) ==
    /\ i + Len(word) - 1 <= Len(text)
    /\ SubSeq(text, i, i + Len(word) - 1) = word

\* re.sub(pattern, "", text) from position i on: at each position the first
\* alternative that matches is removed, wherever in the text it stands.
RECURSIVE RemoveCommonWords(_, _)
RemoveCommonWords(text, i) ==
    IF i > Len(text) THEN <<>>
    ELSE LET hits == {w \in 1..Len(CommonWords) : StartsWith(text, i, CommonWords[w])}
         IN  IF hits = {} THEN <<text[i]>> \o RemoveCommonWords(text, i + 1)
             ELSE RemoveCommonWords(text, i + Len(CommonWords[Min(hits)]))

\* The length a candidate is cut to.
UsernameChars == 20

\* generate_instagram_usernames(business_name)
GenerateInstagramUsernames(business_name) ==
    LET base == SelectSeq(Lower(business_name), AlphaNumeric)
        short == RemoveCommonWords(base, 1)
    IN  <<base>>
        \o (IF short # <<>> /\ short # base THEN <<short>> ELSE <<>>)
        \o (IF Len(base) > UsernameChars THEN <<Take(base, UsernameChars)>> ELSE <<>>)

\* "instagram.com/", the literal head of the pattern of line 32.
InstagramHost == <<"i", "n", "s", "t", "a", "g", "r", "a", "m", ".", "c", "o", "m", "/">>

\* The paths that are no username.
GenericPaths == {<<"p">>, <<"e", "x", "p", "l", "o", "r", "e">>, <<"a", "c", "c", "o", "u", "n", "t", "s">>, <<"r", "e", "e", "l">>, <<"s", "t", "o", "r", "i", "e", "s">>}

\* End (inclusive) of the longest run of [^/?#] starting at i; i - 1 if none.
RECURSIVE SegmentEnd(_, _)
SegmentEnd(url, i) ==
    IF i <= Len(url) /\ url[i] \notin {"/", "?", "#"} THEN SegmentEnd(url, i + 1) ELSE i - 1

\* extract_instagram_username_from_url(url): the path segment after the first
\* "instagram.com/" that has one, unless it is a generic path; else None (<<>>).
\* A url that is None or "" is <<>>.
ExtractInstagramUsernameFromUrl(url) ==
    LET starts == {i \in 1..Len(url) :
                      /\ StartsWith(url, i, InstagramHost)
                      /\ SegmentEnd(url, i + Len(InstagramHost)) >= i + Len(InstagramHost)}
    IN  IF starts = {} THEN <<>>
        ELSE LET from == Min(starts) + Len(InstagramHost)
                 username == SubSeq(url, from, SegmentEnd(url, from))
             IN  IF Lower(username) \notin GenericPaths THEN username ELSE <<>>

\* A list of usernames that always has the generated candidates.
UsernamesToTry_AlwaysGenerates(business_name, website_instagram_url) ==
    LET parsed == IF website_instagram_url # <<>>
                  THEN ExtractInstagramUsernameFromUrl(website_instagram_url)
                  ELSE <<>>
    IN  (IF parsed # <<>> THEN <<parsed>> ELSE <<>>)
        \o GenerateInstagramUsernames(business_name)

\* Lines 29-37 of scrape_instagram: the usernames to try.
UsernamesToTry(business_name, website_instagram_url) ==
    LET parsed == IF website_instagram_url # <<>>
                  THEN ExtractInstagramUsernameFromUrl(website_instagram_url)
                  ELSE <<>>
    IN  IF parsed # <<>> THEN <<parsed>>
        ELSE GenerateInstagramUsernames(business_name)

\* What Profile.from_username does for a candidate.
LookupOutcomes == {"profile", "not_found", "connection", "error"}

\* The profile data of an account that resolves.
TwelvePosts ==
    [followers |-> 1000, raise_at |-> 0,
     posts |-> [i \in 1..RecentPosts |-> [likes |-> 100, comments |-> 20]]]

\* The dict of lines 43-52 for the account username.
ProfileDict(username) ==
    [username |-> username, followers |-> TwelvePosts.followers, following |-> 10,
     posts |-> Len(TwelvePosts.posts), engagement_rate |-> CalculateEngagement(TwelvePosts),
     bio |-> "", is_verified |-> FALSE, is_business |-> TRUE]

\* ------------------------------------------------------------------------
\* app/routes/analyze.py: the /api/analyze handler
\* ------------------------------------------------------------------------

VARIABLES
    api_key,            \* app.config["GROQ_API_KEY"]
    request,            \* the JSON body of the request being served
    pc,                 \* where the handler is
    niche, location, max_results,
    raw_businesses, idx, business_result,
    website_data, website_grade, ig_data, analysis_result,
    businesses_output,
    session,            \* the objects added to the session and not yet committed
    db,                 \* the committed business rows, children attached
    response,
    discovery_calls,    \* the scrape_google_maps calls made for the request, each
                        \* by what its browser session did
    ran                 \* the stage calls made for the current candidate

orchVars ==
    <<api_key, request, pc, niche, location, max_results, raw_businesses, idx,
      business_result, website_data, website_grade, ig_data, analysis_result,
      businesses_output, session, db, response, discovery_calls, ran>>

MaxResultsMin == 1

MaxResultsMax == 50

MaxResultsDefault == 10

\* The request bodies of the model.  A key that is absent is absent from the
\* function; text is a sequence of characters; max_results is a JSON value.
NicheInputs == {<<>>, <<" ">>, <<" ", "m", " ">>}

LocationInputs == {<<"\t", " ">>, <<"a">>}

MaxResultsInputs ==
    {JNum(0), JNum(5), JNum(10), JNum(500), JNum(505), JNum(510), JNum(-10),
     JStr(<<"a">>), JNull}

Restrict(f, keys) == [k \in keys |-> f[k]]

Bodies ==
    {Restrict([niche |-> n, location |-> l, max_results |-> m], keys) :
        n \in NicheInputs, l \in LocationInputs, m \in MaxResultsInputs,
        keys \in SUBSET {"niche", "location", "max_results"}}

NoResponse ==
    [status |-> 0, error |-> "", niche |-> <<>>, location |-> <<>>,
     results_count |-> 0, businesses |-> <<>>]

ErrorResponse(status, error) == [NoResponse EXCEPT !.status = status, !.error = error]

\* A handler whose stage exception ends the work on the candidate.
AfterStage_SkipsCandidate(outcome, next) == IF outcome.exc # "" THEN "loop" ELSE next

\* A handler whose stage exception leaves the handler.
AfterStage_Propagates(outcome, next) == IF outcome.exc # "" THEN "error500" ELSE next

\* A handler that calls a stage again when its call raised.
AfterStage_Retries(outcome, next) ==
    IF outcome.exc # "" /\ next = "persist" THEN "analysis" ELSE next

\* The except clause of a stage: the exception is logged and the handler goes on
\* to the code after the try statement.
AfterStage(outcome, next) == next

\* A stage variable that is not reset before the try statement.
StageOutput_Stale(outcome, empty, previous) ==
    IF outcome.exc # "" THEN previous ELSE outcome.val

\* The value a stage leaves in its variable: the variable is set to its empty
\* value before the try statement, and the call's value replaces it.
StageOutput(outcome, empty, previous) ==
    IF outcome.exc # "" THEN empty ELSE outcome.val

\* A rollback that leaves the pending objects in the session.
SessionRollback_Keeps(pending) == pending

\* session.rollback(): the pending objects are dropped.
SessionRollback(pending) == <<>>

\* json.dumps of a JSON value, as a sequence of lexical elements.
RECURSIVE JsonDumps(_)
JsonDumps(j) ==
    CASE j.jt = "list" ->
            <<[k |-> "[", s |-> ""]>>
            \o (IF j.jv = <<>> THEN <<>>
                ELSE LET rest[i \in 1..Len(j.jv)] ==
                             IF i = Len(j.jv) THEN JsonDumps(j.jv[i])
                             ELSE JsonDumps(j.jv[i]) \o <<[k |-> ",", s |-> ""]>>
                                  \o rest[i + 1]
                     IN  rest[1])
            \o <<[k |-> "]", s |-> ""]>>
      [] j.jt = "str" -> <<[k |-> "string", s |-> j.jv]>>
      [] j.jt = "null" -> <<[k |-> "null", s |-> ""]>>
      [] OTHER -> <<[k |-> "other", s |-> ""]>>

\* json.loads of a stored text: the value that starts at element i and the
\* position after it.  Numbers and objects, which json.dumps renders as an
\* opaque element here, are not read back.
RECURSIVE JsonLoadsAt(_, _)
JsonLoadsAt(text, i) ==
    LET Failed == [ok |-> FALSE, val |-> JNull, next |-> i]
        Items[p \in 1..(Len(text) + 1)] ==
            \* the items of a list from position p on, p being the start of an item
            IF p > Len(text) THEN [ok |-> FALSE, val |-> <<>>, next |-> p]
            ELSE LET item == JsonLoadsAt(text, p)
                 IN  IF ~item.ok \/ item.next > Len(text)
                     THEN [ok |-> FALSE, val |-> <<>>, next |-> p]
                     ELSE IF text[item.next].k = "]"
                     THEN [ok |-> TRUE, val |-> <<item.val>>, next |-> item.next + 1]
                     ELSE IF text[item.next].k = ","
                     THEN LET more == Items[item.next + 1]
                          IN  [ok |-> more.ok, val |-> <<item.val>> \o more.val,
                               next |-> more.next]
                     ELSE [ok |-> FALSE, val |-> <<>>, next |-> p]
    IN  IF i > Len(text) THEN Failed
        ELSE CASE text[i].k = "string" ->
                      [ok |-> TRUE, val |-> JStr(text[i].s), next |-> i + 1]
               [] text[i].k = "null" -> [ok |-> TRUE, val |-> JNull, next |-> i + 1]
               [] text[i].k = "[" ->
                      IF i < Len(text) /\ text[i + 1].k = "]"
                      THEN [ok |-> TRUE, val |-> JList(<<>>), next |-> i + 2]
                      ELSE LET items == Items[i + 1]
                           IN  IF items.ok
                               THEN [ok |-> TRUE, val |-> JList(items.val),
                                     next |-> items.next]
                               ELSE Failed
               [] OTHER -> Failed

\* json.loads(text) of a text in the lexical form JsonDumps writes.
JsonLoadsText(text) ==
    LET read == JsonLoadsAt(text, 1)
    IN  IF read.ok /\ read.next = Len(text) + 1 THEN Returned(read.val)
        ELSE Raised("JSONDecodeError")

\* The stored text of a column, as Analysis.to_dict hands it on unparsed.
RawText(text) == [jt |-> "text", jv |-> text]

\* A to_dict that returns the stored text without parsing it.
AnalysisToDict_Unparsed(row) ==
    [business_id |-> row.business_id, revenue_streams |-> RawText(row.revenue_streams)]

\* Analysis.to_dict(): revenue_streams is None for a falsy stored text, the
\* parsed value otherwise, and the stored text itself when parsing raises.
AnalysisToDict(row) ==
    [business_id |-> row.business_id,
     revenue_streams |->
         IF row.revenue_streams = <<>> THEN JNull
         ELSE LET loaded == JsonLoadsText(row.revenue_streams)
              IN  IF loaded.exc # "" THEN RawText(row.revenue_streams)
                  ELSE loaded.val]

\* Validation and parsing of the request (the head of analyze).
ParsedMaxResults(body) == PyInt(Get(body, "max_results", JNum(10 * MaxResultsDefault)))

ValidationError(body) ==
    IF Strip(Get(body, "niche", <<>>)) = <<>> THEN "niche is required"
    ELSE IF Strip(Get(body, "location", <<>>)) = <<>> THEN "location is required"
    ELSE IF \/ ParsedMaxResults(body).val < MaxResultsMin
            \/ ParsedMaxResults(body).val > MaxResultsMax
    THEN "max_results must be between 1 and 50"
    ELSE ""

\* The worlds the handler meets in the model.
EmptyPage ==
    [title |-> "", description |-> "", h1 |-> <<>>, viewport |-> FALSE,
     imgs |-> <<>>, anchors |-> <<>>, cta |-> <<>>, service_items |-> <<>>,
     team_items |-> <<>>, text |-> <<>>, unparseable |-> FALSE]

\* A page whose text is "Botox $5".
PricePage ==
    [EmptyPage EXCEPT
        !.title = "Glow",
        !.viewport = TRUE,
        !.service_items = <<[text |-> "Botox injections", len |-> 16]>>,
        !.text = <<"B", "o", "t", "o", "x", " ", "$", "5">>]

HandlerWebEnvs ==
    {[playwright |-> TRUE, fetch |-> "goto_timeout", page |-> EmptyPage, seed |-> "seed_a"],
     [playwright |-> TRUE, fetch |-> "ok", page |-> PricePage, seed |-> "seed_a"]}

HandlerFeeds ==
    [playwright : {TRUE}, browser : {"ok"}, listings : FeedsUpTo(MaxListings)]
    \cup [playwright : {TRUE}, browser : {"error", "no_feed"}, listings : {<<>>}]

Reply(kind, status, body, content) ==
    [kind |-> kind, status |-> status, body |-> body, content |-> content]

GradeReplies ==
    {Reply("response", 200, "content", <<"{grade}">>),
     Reply("response", 200, "content", <<"{score_high}">>)}

AnalysisReplies ==
    {Reply("response", 200, "content", <<"{analysis}">>),
     Reply("response", 200, "content", <<"[list]">>)}

GlowProfile ==
    [username |-> "glowmedspa", followers |-> 1000, following |-> 10, posts |-> 12,
     engagement_rate |-> 1200, bio |-> "", is_verified |-> FALSE, is_business |-> TRUE]

\* scrape_instagram as the handler meets it: a profile, None, or an exception
\* raised before its candidate loop.
InstagramOutcomes == {Returned(GlowProfile), Returned(NoneObj), Raised("Exception")}

DbFaults == {"none", "flush", "commit"}

Called(stage, outcome, requests) ==
    [stage |-> stage, exc |-> outcome.exc, requests |-> requests]

\* Lines 83-95: the body is read, max_results converted, the input validated.
Receive(body) ==
    /\ pc = "idle"
    /\ request' = body
    /\ IF ParsedMaxResults(body).exc # ""
       THEN /\ pc' = "error500"
            /\ UNCHANGED <<niche, location, max_results, response>>
       ELSE /\ niche' = Strip(Get(body, "niche", <<>>))
            /\ location' = Strip(Get(body, "location", <<>>))
            /\ max_results' = ParsedMaxResults(body).val
            /\ IF ValidationError(body) # ""
               THEN /\ response' = ErrorResponse(400, ValidationError(body))
                    /\ pc' = "done"
               ELSE /\ pc' = "discover"
                    /\ UNCHANGED response
    /\ UNCHANGED <<api_key, raw_businesses, idx, business_result, website_data,
                   website_grade, ig_data, analysis_result, businesses_output,
                   session, db, discovery_calls, ran>>

\* An exception that leaves the handler: the framework answers 500.
InternalError ==
    /\ pc = "error500"
    /\ response' = ErrorResponse(500, "Internal Server Error")
    /\ pc' = "done"
    /\ UNCHANGED <<api_key, request, niche, location, max_results, raw_businesses,
                   idx, business_result, website_data, website_grade, ig_data,
                   analysis_result, businesses_output, session, db,
                   discovery_calls, ran>>

\* Lines 100-111: discovery, its exception giving no candidates.
Discover ==
    /\ pc = "discover"
    /\ \E env \in HandlerFeeds :
         LET outcome == Returned(ScrapeGoogleMaps(max_results, env))
         IN  /\ raw_businesses' = StageOutput(outcome, <<>>, raw_businesses)
             /\ pc' = AfterStage(outcome, "loop")
             /\ discovery_calls' = Append(discovery_calls, env.browser)
    /\ businesses_output' = <<>>
    /\ idx' = 0
    /\ UNCHANGED <<api_key, request, niche, location, max_results, business_result,
                   website_data, website_grade, ig_data, analysis_result, session,
                   db, response, ran>>

\* Lines 113-116: the head of the loop over raw_businesses.
NextCandidate ==
    /\ pc = "loop"
    /\ IF idx < Len(raw_businesses)
       THEN /\ idx' = idx + 1
            /\ business_result' =
                   Merged(raw_businesses[idx + 1], [niche |-> niche, location |-> location])
            /\ pc' = "website"
       ELSE /\ pc' = "respond"
            /\ UNCHANGED <<idx, business_result>>
    /\ ran' = <<>>
    /\ UNCHANGED <<api_key, request, niche, location, max_results, raw_businesses,
                   website_data, website_grade, ig_data, analysis_result,
                   businesses_output, session, db, response, discovery_calls>>

\* Lines 118-128: the website stage.
WebsiteStage ==
    /\ pc = "website"
    /\ LET url == raw_businesses[idx].website
       IN  IF url # None /\ url # ""
           THEN \E env \in HandlerWebEnvs :
                  LET outcome == ScrapeWebsite(url, env)
                  IN  /\ website_data' = StageOutput(outcome, EmptyDict, website_data)
                      /\ pc' = AfterStage(outcome, "grade")
                      /\ ran' = Append(ran, Called("website", outcome, 0))
           ELSE /\ website_data' = EmptyDict
                /\ pc' = "grade"
                /\ UNCHANGED ran
    /\ business_result' =
           Merged(business_result,
                  [services |-> Get(website_data', "services", <<>>),
                   prices |-> Get(website_data', "prices", <<>>),
                   team_members |-> Get(website_data', "team_members", <<>>)])
    /\ UNCHANGED <<api_key, request, niche, location, max_results, raw_businesses,
                   idx, website_grade, ig_data, analysis_result, businesses_output,
                   session, db, response, discovery_calls>>

\* Lines 130-139: the grading stage, entered only with website data.
GradeStage ==
    /\ pc = "grade"
    /\ IF Truthy(website_data)
       THEN \E reply \in GradeReplies :
              LET outcome == GradeWebsite(api_key, website_data, reply)
              IN  /\ website_grade' = StageOutput(outcome, EmptyDict, website_grade)
                  /\ pc' = AfterStage(outcome, "instagram")
                  /\ ran' = Append(ran, Called("grade", outcome, outcome.requests))
       ELSE /\ website_grade' = EmptyDict
            /\ pc' = "instagram"
            /\ UNCHANGED ran
    /\ business_result' = Merged(business_result, [website_grade |-> website_grade'])
    /\ UNCHANGED <<api_key, request, niche, location, max_results, raw_businesses,
                   idx, website_data, ig_data, analysis_result, businesses_output,
                   session, db, response, discovery_calls>>

\* Lines 141-151: the social stage.
InstagramStage ==
    /\ pc = "instagram"
    /\ \E outcome \in InstagramOutcomes :
         /\ ig_data' = StageOutput(outcome, NoneObj, ig_data)
         /\ pc' = AfterStage(outcome, "analysis")
         /\ ran' = Append(ran, Called("instagram", outcome, 0))
    /\ business_result' = Merged(business_result, [instagram |-> ig_data'])
    /\ UNCHANGED <<api_key, request, niche, location, max_results, raw_businesses,
                   idx, website_data, website_grade, analysis_result,
                   businesses_output, session, db, response, discovery_calls>>

\* Lines 153-160: the assessment stage.
AnalysisStage ==
    /\ pc = "analysis"
    /\ \E reply \in AnalysisReplies :
         LET outcome == AnalyzeBusiness(api_key, business_result, niche, reply)
         IN  /\ analysis_result' = StageOutput(outcome, EmptyDict, analysis_result)
             /\ pc' = AfterStage(outcome, "persist")
             /\ ran' = Append(ran, Called("analysis", outcome, outcome.requests))
    /\ business_result' = Merged(business_result, [analysis |-> analysis_result'])
    /\ UNCHANGED <<api_key, request, niche, location, max_results, raw_businesses,
                   idx, website_data, website_grade, ig_data, businesses_output,
                   session, db, response, discovery_calls>>

\* The rows _save_to_db builds.  cand is bookkeeping of the model: the position
\* in the batch of the candidate the row was built for.
BusinessRow(id, data, cand) ==
    [table |-> "businesses", id |-> id, cand |-> cand,
     name |-> Get(data, "name", ""), niche |-> Get(data, "niche", None),
     location |-> Get(data, "location", None), website |-> Get(data, "website", None),
     phone |-> Get(data, "phone", None), address |-> Get(data, "address", None),
     rating |-> Get(data, "rating", None),
     reviews_count |-> Get(data, "reviews_count", None),
     hours |-> Get(data, "hours", None)]

InstagramRow(business_id, ig, cand) ==
    [table |-> "instagram_data", business_id |-> business_id, cand |-> cand,
     username |-> ig.username, followers |-> ig.followers, following |-> ig.following,
     posts |-> ig.posts, engagement_rate |-> ig.engagement_rate, bio |-> ig.bio,
     is_verified |-> ig.is_verified, is_business |-> ig.is_business]

AnalysisRow(business_id, analysis, cand) ==
    [table |-> "analyses", business_id |-> business_id, cand |-> cand,
     revenue_streams |-> JsonDumps(Get(analysis, "revenue_streams", JList(<<>>))),
     estimated_revenue_tier |-> Get(analysis, "estimated_revenue_tier", JNull),
     pricing_strategy |-> Get(analysis, "pricing_strategy", JNull),
     service_quality_score |-> Get(analysis, "service_quality_score", JNull),
     competitive_assessment |-> Get(analysis, "competitive_assessment", JNull),
     niche_specific_insights |-> Get(analysis, "niche_specific_insights", JNull)]

RowsOf(rows, table) == SelectSeq(rows, LAMBDA r : r.table = table)

\* A write whose every add reaches the database at once, a failing commit
\* leaving the rows added before it.
SaveToDb_Autocommit(pending, committed, business_data, ig, analysis, cand, fault) ==
    LET id == Len(RowsOf(committed, "businesses")) + 1
        added == Append(pending, BusinessRow(id, business_data, cand))
        withIg == IF Truthy(ig) THEN Append(added, InstagramRow(id, ig, cand)) ELSE added
    IN  IF fault = "flush"
        THEN [exc |-> "SQLAlchemyError", val |-> NoneObj, session |-> <<>>,
              db |-> committed]
        ELSE IF fault = "commit"
        THEN [exc |-> "SQLAlchemyError", val |-> NoneObj, session |-> <<>>,
              db |-> committed \o withIg]
        ELSE [exc |-> "", val |-> NoneObj, session |-> <<>>,
              db |-> committed \o (IF Truthy(analysis)
                                   THEN Append(withIg, AnalysisRow(id, analysis, cand))
                                   ELSE withIg)]

\* _save_to_db(session, business_data, ig_data, analysis_data): the business is
\* added and flushed, the children added, the session committed.  fault names
\* the database call that raises, if one does.
SaveToDb(pending, committed, business_data, ig, analysis, cand, fault) ==
    LET id == Len(RowsOf(committed, "businesses")) + 1
        added == Append(pending, BusinessRow(id, business_data, cand))
        withIg == IF Truthy(ig) THEN Append(added, InstagramRow(id, ig, cand)) ELSE added
        withAll == IF Truthy(analysis)
                   THEN Append(withIg, AnalysisRow(id, analysis, cand))
                   ELSE withIg
    IN  IF fault = "flush"
        THEN [exc |-> "SQLAlchemyError", val |-> NoneObj, session |-> added,
              db |-> committed]
        ELSE IF fault = "commit"
        THEN [exc |-> "SQLAlchemyError", val |-> NoneObj, session |-> withAll,
              db |-> committed]
        ELSE [exc |-> "", val |-> NoneObj, session |-> <<>>, db |-> committed \o withAll]

\* Lines 162-167: the persistence stage, its exception rolling the session back.
PersistStage ==
    /\ pc = "persist"
    /\ \E fault \in DbFaults :
         LET outcome == SaveToDb(session, db, business_result, ig_data,
                                 analysis_result, idx, fault)
         IN  /\ session' = IF outcome.exc # "" THEN SessionRollback(outcome.session)
                           ELSE outcome.session
             /\ db' = outcome.db
             /\ pc' = AfterStage(outcome, "append")
             /\ ran' = Append(ran, Called("persist", outcome, 0))
    /\ UNCHANGED <<api_key, request, niche, location, max_results, raw_businesses,
                   idx, business_result, website_data, website_grade, ig_data,
                   analysis_result, businesses_output, response, discovery_calls>>

\* Line 169: the record joins the output.
AppendRecord ==
    /\ pc = "append"
    /\ businesses_output' = Append(businesses_output, business_result)
    /\ pc' = "loop"
    /\ UNCHANGED <<api_key, request, niche, location, max_results, raw_businesses,
                   idx, business_result, website_data, website_grade, ig_data,
                   analysis_result, session, db, response, discovery_calls, ran>>

\* Lines 171-181: the success response.
Respond ==
    /\ pc = "respond"
    /\ response' =
           [status |-> 200, error |-> "", niche |-> niche, location |-> location,
            results_count |-> Len(businesses_output), businesses |-> businesses_output]
    /\ pc' = "done"
    /\ UNCHANGED <<api_key, request, niche, location, max_results, raw_businesses,
                   idx, business_result, website_data, website_grade, ig_data,
                   analysis_result, businesses_output, session, db,
                   discovery_calls, ran>>

ApiKeys == {"", "gsk_key"}

OrchInit ==
    /\ api_key \in ApiKeys
    /\ request = EmptyDict
    /\ pc = "idle"
    /\ niche = <<>>
    /\ location = <<>>
    /\ max_results = 0
    /\ raw_businesses = <<>>
    /\ idx = 0
    /\ business_result = EmptyDict
    /\ website_data = EmptyDict
    /\ website_grade = EmptyDict
    /\ ig_data = NoneObj
    /\ analysis_result = EmptyDict
    /\ businesses_output = <<>>
    /\ session = <<>>
    /\ db = <<>>
    /\ response = NoResponse
    /\ discovery_calls = <<>>
    /\ ran = <<>>

OrchNext ==
    \/ pc = "idle" /\ \E body \in Bodies : Receive(body)
    \/ InternalError
    \/ Discover
    \/ NextCandidate
    \/ WebsiteStage
    \/ GradeStage
    \/ InstagramStage
    \/ AnalysisStage
    \/ PersistStage
    \/ AppendRecord
    \/ Respond

\* ------------------------------------------------------------------------
\* One call of scrape_google_maps, listing by listing
\* ------------------------------------------------------------------------

VARIABLES
    gm_pc,              \* where the call is
    gm_max_results,     \* its max_results argument
    gm_env,             \* the world it meets
    gm_k,               \* the position in listings of the next listing
    gm_loop,            \* the state of the listing loop
    gm_returned         \* the list it returned

gmVars == <<gm_pc, gm_max_results, gm_env, gm_k, gm_loop, gm_returned>>

DiscoveryBounds == {MaxResultsMin, 2, MaxResultsMax}

DiscoveryEnvs ==
    [playwright : {TRUE}, browser : {"ok"}, listings : FeedsUpTo(MaxListings + 1)]
    \cup [playwright : BOOLEAN, browser : BrowserOutcomes, listings : {<<>>}]

\* Lines 14-64: the import, the browser session, the feed, the listing links.
GmCall(n, env) ==
    /\ gm_pc = "idle"
    /\ gm_max_results' = n
    /\ gm_env' = env
    /\ gm_loop' = LoopStart
    /\ gm_k' = 1
    /\ IF ~env.playwright \/ env.browser # "ok"
       THEN gm_pc' = "returned" /\ gm_returned' = <<>>
       ELSE gm_pc' = "loop" /\ UNCHANGED gm_returned

\* Lines 67-85: one iteration of the loop over the listing links.
GmIterate ==
    /\ gm_pc = "loop"
    /\ gm_k <= Len(gm_env.listings)
    /\ ~gm_loop.over
    /\ gm_loop' = ListingStep(gm_loop, gm_env.listings[gm_k], gm_k, gm_max_results)
    /\ gm_k' = gm_k + 1
    /\ UNCHANGED <<gm_pc, gm_max_results, gm_env, gm_returned>>

\* Lines 87-91: the loop is over (exhausted, broken out of, or left by an
\* exception); the results are returned.
GmReturn ==
    /\ gm_pc = "loop"
    /\ gm_k > Len(gm_env.listings) \/ gm_loop.over
    /\ gm_returned' = gm_loop.results
    /\ gm_pc' = "returned"
    /\ UNCHANGED <<gm_max_results, gm_env, gm_k, gm_loop>>

GmInit ==
    /\ gm_pc = "idle"
    /\ gm_max_results = 0
    /\ gm_env = [playwright |-> TRUE, browser |-> "ok", listings |-> <<>>]
    /\ gm_k = 1
    /\ gm_loop = LoopStart
    /\ gm_returned = <<>>

GmNext ==
    \/ gm_pc = "idle" /\ \E n \in DiscoveryBounds, env \in DiscoveryEnvs : GmCall(n, env)
    \/ GmIterate
    \/ GmReturn

\* ------------------------------------------------------------------------
\* One call of scrape_website
\* ------------------------------------------------------------------------

VARIABLES
    ws_pc,              \* where the call is
    ws_url,             \* its url argument
    ws_env,             \* the world it meets
    ws_outcome          \* what the call gave its caller

wsVars == <<ws_pc, ws_url, ws_env, ws_outcome>>

\* A page whose parsing raises.
BrokenPage == [EmptyPage EXCEPT !.unparseable = TRUE]

\* A page with repeated items, an internal and an external link, two prices.
RichPage ==
    [EmptyPage EXCEPT
        !.title = "Zen Spa",
        !.description = "Massage and facials",
        !.h1 = <<"Zen Spa", "">>,
        !.viewport = TRUE,
        !.imgs = <<[src |-> "https://glow.example/a.png", alt |-> "front desk"],
                   [src |-> "", alt |-> ""]>>,
        !.anchors = <<[href |-> "https://glow.example/book", host |-> "glow.example",
                       text |-> "Book"],
                      [href |-> "https://www.instagram.com/zenspa",
                       host |-> "www.instagram.com", text |-> "Instagram"]>>,
        !.cta = <<[text |-> "Book now", keyword |-> TRUE],
                  [text |-> "Blog", keyword |-> FALSE]>>,
        !.service_items = <<[text |-> "Deep tissue massage", len |-> 19],
                            [text |-> "Facial", len |-> 6],
                            [text |-> "Deep tissue massage", len |-> 19],
                            [text |-> "Spa", len |-> 3]>>,
        !.team_items = <<[text |-> "Ann Lee, RN", len |-> 11, titled |-> TRUE,
                          dollar |-> FALSE],
                         [text |-> "$50 gift card", len |-> 13, titled |-> FALSE,
                          dollar |-> TRUE]>>,
        !.text = <<" ", "$", "9", "9", " ", "o", "r", " ", "$", "1", ",", "5", "0", "0",
                   ".", "0", "0", "\n">>]

\* A page whose text is "Botox $399, Filler $650.00; lips from $399".
RepeatPriceText ==
    <<"B", "o", "t", "o", "x", " ", "$", "3", "9", "9", ",", " ", "F", "i", "l", "l",
      "e", "r", " ", "$", "6", "5", "0", ".", "0", "0", ";", " ", "l", "i", "p", "s",
      " ", "f", "r", "o", "m", " ", "$", "3", "9", "9">>

RepeatPricePage == [EmptyPage EXCEPT !.title = "Prices", !.text = RepeatPriceText]

\* A page whose text is "$1 $2 $3 $4 $5 $6 $7 $8 $9 " over and over, with one
\* price more than the list keeps.
ManyPricesPage ==
    [EmptyPage EXCEPT
        !.title = "Menu",
        !.text = [i \in 1..(3 * (PriceCap + 1)) |->
                     IF i % 3 = 1 THEN "$"
                     ELSE IF i % 3 = 0 THEN " "
                     ELSE <<"1", "2", "3", "4", "5", "6", "7", "8", "9">>[((i \div 3) % 9) + 1]]]

\* The texts of one call-to-action element more than the list keeps.
CtaTexts ==
    <<"Book now", "Schedule a visit", "Contact us", "Call today", "Reserve a room",
      "Get started", "Sign up", "Free consultation", "Request a quote",
      "Order online", "Book a facial">>

\* A page with more distinct call-to-action texts than the list keeps, and two
\* distinct team members.
ManyCtaPage ==
    [EmptyPage EXCEPT
        !.title = "Visit",
        !.cta = [i \in 1..Len(CtaTexts) |-> [text |-> CtaTexts[i], keyword |-> TRUE]],
        !.team_items = <<[text |-> "Ann Lee, RN", len |-> 11, titled |-> TRUE,
                          dollar |-> FALSE],
                         [text |-> "Bo Diaz, NP", len |-> 11, titled |-> TRUE,
                          dollar |-> FALSE]>>]

WebsitePages ==
    {EmptyPage, PricePage, BrokenPage, RichPage, RepeatPricePage, ManyPricesPage,
     ManyCtaPage}

WebsiteUrls == DOMAIN HostOf

WebsiteEnvs ==
    [playwright : BOOLEAN, fetch : FetchOutcomes, page : WebsitePages, seed : HashSeeds]

WsCall(url, env) ==
    /\ ws_pc = "idle"
    /\ ws_url' = url
    /\ ws_env' = env
    /\ ws_pc' = "called"
    /\ UNCHANGED ws_outcome

\* Lines 22-44: the body of scrape_website.
WsRun ==
    /\ ws_pc = "called"
    /\ ws_outcome' = ScrapeWebsite(ws_url, ws_env)
    /\ ws_pc' = "finished"
    /\ UNCHANGED <<ws_url, ws_env>>

WsInit ==
    /\ ws_pc = "idle"
    /\ ws_url = ""
    /\ ws_env = [playwright |-> TRUE, fetch |-> "ok", page |-> EmptyPage, seed |-> "seed_a"]
    /\ ws_outcome = Returned(EmptyDict)

WsNext ==
    \/ ws_pc = "idle" /\ \E url \in WebsiteUrls, env \in WebsiteEnvs : WsCall(url, env)
    \/ WsRun

\* ------------------------------------------------------------------------
\* One call of analyze_business or grade_website
\* ------------------------------------------------------------------------

VARIABLES
    cl_pc,              \* where the call is
    cl_client,          \* "analysis" (analyze_business) or "grade" (grade_website)
    cl_key,             \* Config.GROQ_API_KEY
    cl_input,           \* the business record or the website profile passed
    cl_reply,           \* what the remote service would do to a POST
    cl_outcome          \* what the call gave its caller, with the requests it issued

clVars == <<cl_pc, cl_client, cl_key, cl_input, cl_reply, cl_outcome>>

\* The message contents of the replies.
Contents ==
    {<<"{analysis}">>,
     <<" ", "{analysis}", "\n">>,
     <<Fence, "json", "\n", "{analysis}", "\n", Fence>>,
     <<Fence, "json", " ", "{analysis}", " ", Fence>>,
     <<"Sure,", " ", "{analysis}">>,
     <<"{streams}">>, <<"{score_8.5}">>, <<"{score_high}">>, <<"{score_null}">>,
     <<"{grade}">>, <<"{grade_150}">>, <<"{}">>, <<"[list]">>, <<"42">>, <<"null">>,
     <<>>}

ClientReplies ==
    {Reply("exception", 0, "content", <<>>)}
    \cup {Reply("response", status, "content", <<"{analysis}">>) : status \in {429, 500}}
    \cup {Reply("response", 200, body, <<>>) : body \in BodyShapes \ {"content"}}
    \cup {Reply("response", 200, "content", content) : content \in Contents}

GlowUrl == "https://glow.example"

PricedProfile ==
    ScrapeWebsite(GlowUrl, [playwright |-> TRUE, fetch |-> "ok", page |-> PricePage,
                            seed |-> "seed_a"]).val

\* The business records handed to analyze_business: without, and with, prices.
AnalysisInputs ==
    {Merged([name |-> "Glow Medspa", niche |-> <<"m">>], EmptyWebsiteData(GlowUrl)),
     Merged([name |-> "Glow Medspa", niche |-> <<"m">>], PricedProfile)}

\* The profiles handed to grade_website.
GradeInputs == {EmptyDict, EmptyWebsiteData(""), EmptyWebsiteData(GlowUrl), PricedProfile}

ClCall(client, key, input, reply) ==
    /\ cl_pc = "idle"
    /\ cl_client' = client
    /\ cl_key' = key
    /\ cl_input' = input
    /\ cl_reply' = reply
    /\ cl_pc' = "called"
    /\ UNCHANGED cl_outcome

\* The body of analyze_business (lines 15-68) or grade_website (lines 16-79).
ClRun ==
    /\ cl_pc = "called"
    /\ cl_outcome' = IF cl_client = "analysis"
                     THEN AnalyzeBusiness(cl_key, cl_input, <<"m">>, cl_reply)
                     ELSE GradeWebsite(cl_key, cl_input, cl_reply)
    /\ cl_pc' = "finished"
    /\ UNCHANGED <<cl_client, cl_key, cl_input, cl_reply>>

ClInit ==
    /\ cl_pc = "idle"
    /\ cl_client = "analysis"
    /\ cl_key = ""
    /\ cl_input = EmptyDict
    /\ cl_reply = Reply("exception", 0, "content", <<>>)
    /\ cl_outcome = NoRequest(Returned(EmptyDict))

ClNext ==
    \/ cl_pc = "idle" /\ \E key \in ApiKeys, input \in AnalysisInputs, reply \in ClientReplies :
                              ClCall("analysis", key, input, reply)
    \/ cl_pc = "idle" /\ \E key \in ApiKeys, input \in GradeInputs, reply \in ClientReplies :
                              ClCall("grade", key, input, reply)
    \/ ClRun

\* ------------------------------------------------------------------------
\* The functions of the pipeline applied to inputs, one call at a time
\* ------------------------------------------------------------------------

VARIABLES
    fn,                 \* the function called, "" before the call
    args,               \* its arguments
    result              \* what the call gave

fnVars == <<fn, args, result>>

\* The ways a reply wraps a payload in a fenced code block.
FenceStyles ==
    {"own_lines", "own_lines_tagged", "own_lines_padded", "same_line",
     "same_line_tagged", "closing_on_payload_line"}

Fenced(payload, style) ==
    CASE style = "own_lines" -> <<Fence, "\n", payload, "\n", Fence>>
      [] style = "own_lines_tagged" -> <<Fence, "json", "\n", payload, "\n", Fence>>
      [] style = "own_lines_padded" ->
            <<" ", Fence, "json", "\n", " ", payload, "\n", Fence, "\n">>
      [] style = "same_line" -> <<Fence, payload, Fence>>
      [] style = "same_line_tagged" -> <<Fence, "json", " ", payload, " ", Fence>>
      [] OTHER -> <<Fence, "json", "\n", payload, Fence>>

Parse(parser, content) ==
    IF parser = "_parse_analysis" THEN ParseAnalysis(content) ELSE ParseGrade(content)

\* _parse_analysis or _parse_grade called on a payload, plain and fenced.
CallParse(parser, payload, style) ==
    /\ fn = ""
    /\ fn' = parser
    /\ args' = [payload |-> payload, style |-> style]
    /\ result' = [plain |-> Parse(parser, <<payload>>),
                  fenced |-> Parse(parser, Fenced(payload, style))]

\* Largest number of posts of a profile.
MaxPosts == 13

PostKinds == {[likes |-> 100, comments |-> 20], [likes |-> 0, comments |-> 0],
              [likes |-> 1, comments |-> 2]}

FollowerCounts == {0, 3, 1000}

\* The profiles: k posts of one kind followed by posts of another.
Profiles ==
    {[followers |-> f, raise_at |-> r,
      posts |-> [i \in 1..len |-> IF i <= k THEN a ELSE b]] :
        f \in FollowerCounts, r \in {0, 1, RecentPosts + 1},
        len \in {0, 1, 2, RecentPosts, MaxPosts}, k \in {1, RecentPosts},
        a \in PostKinds, b \in PostKinds}

CallCalculateEngagement(profile) ==
    /\ fn = ""
    /\ fn' = "_calculate_engagement"
    /\ args' = profile
    /\ result' = CalculateEngagement(profile)

\* The business names the generator is called on.
GlowName ==
    <<"T", "h", "e", " ", "G", "l", "o", "w", " ", "M", "e", "d", "s", "p", "a", " ",
      "&", " ", "C", "o", ".">>

BananaName ==
    <<"B", "a", "n", "a", "n", "a", " ", "S", "p", "a">>

ZenName ==
    <<"Z", "e", "n", " ", "S", "p", "a", " ", "L", "L", "C">>

LongName ==
    <<"S", "k", "i", "n", " ", "B", "o", "d", "y", " ", "W", "e", "l", "l", "n", "e",
      "s", "s", " ", "S", "t", "u", "d", "i", "o", " ", "2", "4">>

StopOnlyName ==
    <<"T", "h", "e", " ", "A", " ", "C", "o">>

PlainName ==
    <<"G", "l", "o", "w">>

BusinessNames == {GlowName, BananaName, ZenName, LongName, StopOnlyName, PlainName, <<>>}

CallGenerateInstagramUsernames(business_name) ==
    /\ fn = ""
    /\ fn' = "generate_instagram_usernames"
    /\ args' = business_name
    /\ result' = GenerateInstagramUsernames(business_name)

\* _parse_website_content(html, url) on the same markup and URL in two
\* interpreter processes, each with its own string hash seed.
CallParseWebsiteContentTwice(page, url, first_seed, second_seed) ==
    /\ fn = ""
    /\ fn' = "_parse_website_content"
    /\ args' = [page |-> page, url |-> url, seeds |-> <<first_seed, second_seed>>]
    /\ result' = [first |-> ParseWebsiteContent(page, url, first_seed),
                  second |-> ParseWebsiteContent(page, url, second_seed)]

FnInit == fn = "" /\ args = EmptyDict /\ result = EmptyDict

FnNext ==
    \/ \E parser \in {"_parse_analysis", "_parse_grade"}, payload \in DOMAIN Payloads,
          style \in FenceStyles : CallParse(parser, payload, style)
    \/ \E profile \in Profiles : CallCalculateEngagement(profile)
    \/ \E name \in BusinessNames : CallGenerateInstagramUsernames(name)
    \/ \E page \in WebsitePages, url \in WebsiteUrls, first_seed \in HashSeeds,
          second_seed \in HashSeeds :
          CallParseWebsiteContentTwice(page, url, first_seed, second_seed)

\* ------------------------------------------------------------------------
\* One call of scrape_instagram, candidate by candidate
\* ------------------------------------------------------------------------

VARIABLES
    ig_pc,              \* where the call is
    ig_name,            \* its business_name argument
    ig_url,             \* its website_instagram_url argument (<<>> if None)
    ig_world,           \* what the lookup of the candidate at each position does
    ig_usernames,       \* usernames_to_try
    ig_tried,           \* the positions in usernames_to_try looked up, in order
    ig_outcome          \* what the call gave its caller

igVars == <<ig_pc, ig_name, ig_url, ig_world, ig_usernames, ig_tried, ig_outcome>>

ZenUrl ==
    <<"h", "t", "t", "p", "s", ":", "/", "/", "w", "w", "w", ".", "i", "n", "s", "t",
      "a", "g", "r", "a", "m", ".", "c", "o", "m", "/", "z", "e", "n", "s", "p", "a",
      "/">>

PostUrl ==
    <<"h", "t", "t", "p", "s", ":", "/", "/", "i", "n", "s", "t", "a", "g", "r", "a",
      "m", ".", "c", "o", "m", "/", "P", "/", "C", "x", "y", "z">>

OtherUrl ==
    <<"h", "t", "t", "p", "s", ":", "/", "/", "g", "l", "o", "w", ".", "e", "x", "a",
      "m", "p", "l", "e", "/", "i", "g">>

InstagramUrls == {<<>>, ZenUrl, PostUrl, OtherUrl}

InstagramNames == {GlowName, LongName, PlainName}

\* The lookups of a call: an outcome for each position of the list, which has
\* three usernames at most.
LookupWorlds == [1..3 -> LookupOutcomes]

\* Lines 20-37: the import and the list of usernames.
IgCall(name, url, import_ok, world) ==
    /\ ig_pc = "idle"
    /\ ig_name' = name
    /\ ig_url' = url
    /\ ig_world' = world
    /\ ig_tried' = <<>>
    /\ IF import_ok
       THEN /\ ig_usernames' = UsernamesToTry(name, url)
            /\ ig_pc' = "loop"
            /\ UNCHANGED ig_outcome
       ELSE /\ ig_usernames' = <<>>
            /\ ig_pc' = "returned"
            /\ ig_outcome' = Returned(NoneObj)

\* Lines 39-58: the lookup of the next username; a profile is returned, any
\* exception goes on to the next username.
IgTry ==
    /\ ig_pc = "loop"
    /\ Len(ig_tried) < Len(ig_usernames)
    /\ LET k == Len(ig_tried) + 1
       IN  /\ ig_tried' = Append(ig_tried, k)
           /\ IF ig_world[k] = "profile"
              THEN /\ ig_outcome' = Returned(ProfileDict(ig_usernames[k]))
                   /\ ig_pc' = "returned"
              ELSE UNCHANGED <<ig_outcome, ig_pc>>
    /\ UNCHANGED <<ig_name, ig_url, ig_world, ig_usernames>>

\* Line 60: no username is left.
IgGiveUp ==
    /\ ig_pc = "loop"
    /\ Len(ig_tried) = Len(ig_usernames)
    /\ ig_outcome' = Returned(NoneObj)
    /\ ig_pc' = "returned"
    /\ UNCHANGED <<ig_name, ig_url, ig_world, ig_usernames, ig_tried>>

IgInit ==
    /\ ig_pc = "idle"
    /\ ig_name = <<>>
    /\ ig_url = <<>>
    /\ ig_world = [k \in 1..3 |-> "not_found"]
    /\ ig_usernames = <<>>
    /\ ig_tried = <<>>
    /\ ig_outcome = Returned(NoneObj)

IgNext ==
    \/ ig_pc = "idle" /\ \E name \in InstagramNames, url \in InstagramUrls,
                            import_ok \in BOOLEAN, world \in LookupWorlds :
                              IgCall(name, url, import_ok, world)
    \/ IgTry
    \/ IgGiveUp

\* ------------------------------------------------------------------------
\* Specifications
\* ------------------------------------------------------------------------

vars == <<orchVars, gmVars, wsVars, clVars, fnVars, igVars>>

\* The request handler, from the request to the response.
Init == OrchInit /\ GmInit /\ WsInit /\ ClInit /\ FnInit /\ IgInit

Next == OrchNext /\ UNCHANGED <<gmVars, wsVars, clVars, fnVars, igVars>>

Spec == Init /\ [][Next]_vars

OrchIdle == OrchInit /\ api_key = "gsk_key"

\* scrape_google_maps on its own.
InitDiscovery == OrchIdle /\ GmInit /\ WsInit /\ ClInit /\ FnInit /\ IgInit

NextDiscovery == GmNext /\ UNCHANGED <<orchVars, wsVars, clVars, fnVars, igVars>>

SpecDiscovery == InitDiscovery /\ [][NextDiscovery]_vars

\* scrape_website on its own.
InitWebsite == OrchIdle /\ GmInit /\ WsInit /\ ClInit /\ FnInit /\ IgInit

NextWebsite == WsNext /\ UNCHANGED <<orchVars, gmVars, clVars, fnVars, igVars>>

SpecWebsite == InitWebsite /\ [][NextWebsite]_vars

\* analyze_business and grade_website on their own.
InitClients == OrchIdle /\ GmInit /\ WsInit /\ ClInit /\ FnInit /\ IgInit

NextClients == ClNext /\ UNCHANGED <<orchVars, gmVars, wsVars, fnVars, igVars>>

SpecClients == InitClients /\ [][NextClients]_vars

\* The functions on their own.
InitFunctions == OrchIdle /\ GmInit /\ WsInit /\ ClInit /\ FnInit /\ IgInit

NextFunctions == FnNext /\ UNCHANGED <<orchVars, gmVars, wsVars, clVars, igVars>>

SpecFunctions == InitFunctions /\ [][NextFunctions]_vars

\* scrape_instagram on its own.
InitInstagram == OrchIdle /\ GmInit /\ WsInit /\ ClInit /\ FnInit /\ IgInit

NextInstagram == IgNext /\ UNCHANGED <<orchVars, gmVars, wsVars, clVars, fnVars>>

SpecInstagram == InitInstagram /\ [][NextInstagram]_vars

\* ------------------------------------------------------------------------
\* Properties of the request handler (specification Spec)
\* ------------------------------------------------------------------------

\* The request passed the validation of lines 89-95.
Validated == ParsedMaxResults(request).exc = "" /\ ValidationError(request) = ""

Answered == pc = "done"

\* The record at position i of a list of records carries candidate i of
\* discovery: its seven raw fields, and the niche and location of the request.
CarriesCandidate(records, i) ==
    /\ \A k \in DOMAIN raw_businesses[i] : records[i][k] = raw_businesses[i][k]
    /\ records[i]["niche"] = niche
    /\ records[i]["location"] = location

\* The stages called so far for the current candidate, in call order.
StagesRan == [i \in 1..Len(ran) |-> ran[i].stage]

\* The call of the stage for the current candidate raised.
StageRaised(stage) == \E i \in 1..Len(ran) : ran[i].stage = stage /\ ran[i].exc # ""

\* C1: the success response lists exactly one record per candidate of discovery,
\* in discovery order, results_count is the number of candidates, and every
\* record carries the raw fields of its candidate with the niche and location
\* tags, whatever stages failed.
C1_OneRecordPerCandidate ==
    /\ pc \in {"loop", "respond"} =>
          /\ Len(businesses_output) = idx
          /\ \A i \in 1..idx : CarriesCandidate(businesses_output, i)
    /\ Answered /\ Validated =>
          /\ response.results_count = Len(raw_businesses)
          /\ Len(response.businesses) = Len(raw_businesses)
          /\ \A i \in 1..Len(raw_businesses) : CarriesCandidate(response.businesses, i)

\* Every candidate of a full batch had a website, and for every one of them the
\* grading, the social stage, the assessment and the write failed.
C1_Witness ==
    /\ Answered /\ response.status = 200
    /\ response.results_count = MaxListings
    /\ db = <<>>
    /\ \A i \in 1..Len(response.businesses) :
          /\ response.businesses[i]["website"] # None
          /\ response.businesses[i]["website_grade"] = EmptyDict
          /\ response.businesses[i]["instagram"] = NoneObj
          /\ response.businesses[i]["analysis"] = EmptyDict

\* The stages the handler calls for the current candidate.
ExpectedStages ==
    (IF raw_businesses[idx].website \notin {None, ""} THEN <<"website">> ELSE <<>>)
    \o (IF Truthy(website_data) THEN <<"grade">> ELSE <<>>)
    \o <<"instagram", "analysis", "persist">>

\* C2: an exception of a stage is caught at the stage; the output of the stage
\* is its empty value, the later stages of the candidate are still called, and
\* the remaining candidates are still processed.
C2_StageFailureIsolated ==
    /\ pc = "append" =>
          /\ StagesRan = ExpectedStages
          /\ StageRaised("website") =>
                /\ website_data = EmptyDict
                /\ business_result["services"] = <<>>
                /\ business_result["prices"] = <<>>
          /\ StageRaised("grade") =>
                website_grade = EmptyDict /\ business_result["website_grade"] = EmptyDict
          /\ StageRaised("instagram") =>
                ig_data = NoneObj /\ business_result["instagram"] = NoneObj
          /\ StageRaised("analysis") =>
                analysis_result = EmptyDict /\ business_result["analysis"] = EmptyDict
          /\ StageRaised("persist") => session = <<>>
    /\ pc \in {"website", "grade", "instagram", "analysis", "persist", "append"} =>
          idx \in 1..Len(raw_businesses) /\ Len(businesses_output) = idx - 1
    /\ pc = "respond" => idx = Len(raw_businesses)

\* For the second candidate the grading, the social stage and the assessment
\* raised, each followed by the later stages, after the write of the first
\* candidate had failed.
C2_Witness ==
    /\ pc = "append" /\ idx = 2
    /\ db = <<>>
    /\ StageRaised("grade") /\ StageRaised("instagram") /\ StageRaised("analysis")
    /\ StagesRan = <<"website", "grade", "instagram", "analysis", "persist">>

\* The max_results of the body is a number outside [1, 50] (numbers in tenths).
OutOfRange(body) ==
    /\ "max_results" \in DOMAIN body
    /\ body["max_results"].jt = "num"
    /\ \/ body["max_results"].jv < 10 * MaxResultsMin
       \/ body["max_results"].jv > 10 * MaxResultsMax

\* What the specification wants rejected.
MustBeRejected(body) ==
    \/ Strip(Get(body, "niche", <<>>)) = <<>>
    \/ Strip(Get(body, "location", <<>>)) = <<>>
    \/ OutOfRange(body)

\* No discovery, no stage call and no database write has been made.
NoWorkYet == discovery_calls = <<>> /\ ran = <<>> /\ session = <<>> /\ db = <<>>

\* C3: a request whose niche or location is empty after trimming, or whose
\* max_results lies outside [1, 50], is answered with an error and not served,
\* before any discovery, stage or write.
C3_InvalidRejectedBeforeWork ==
    pc # "idle" /\ MustBeRejected(request) =>
        /\ pc \in {"error500", "done"}
        /\ Answered => response.status \in {400, 500}
        /\ NoWorkYet

\* C4: a request that passes validation is answered with the success response,
\* whatever fails in discovery or in a stage; an error response is only ever
\* the answer to a request rejected for its input, before any work; a
\* discovery that fails gives a success response with zero results.
C4_ValidatedBatchSucceeds ==
    /\ Answered => (response.status = 200 <=> Validated)
    /\ Answered /\ Validated =>
          /\ response.error = ""
          /\ response.niche = niche /\ response.location = location
          /\ response.results_count = Len(response.businesses)
    /\ Answered /\ ~Validated => response.status \in {400, 500} /\ NoWorkYet
    /\ pc = "error500" => ParsedMaxResults(request).exc # "" /\ NoWorkYet
    /\ Answered /\ discovery_calls # <<>> /\ discovery_calls[1] # "ok" =>
          response.status = 200 /\ response.results_count = 0

\* The browser session of discovery failed and the request was answered
\* with success and no results.
C4_Witness ==
    /\ Answered /\ discovery_calls = <<"error">>
    /\ response.status = 200 /\ response.results_count = 0

\* The rows of the database written for candidate c.
RowsFor(c) == SelectSeq(db, LAMBDA r : r.cand = c)

\* C5: when the write of a candidate fails, the session is rolled back and no
\* row of the candidate is kept; the record of the candidate still joins the
\* output; the write of a later candidate commits its own rows and only those.
C5_FailedWriteRolledBack ==
    /\ pc = "append" => session = <<>>
    /\ pc = "append" /\ StageRaised("persist") => RowsFor(idx) = <<>>
    /\ pc = "append" /\ ~StageRaised("persist") =>
          /\ Len(RowsOf(RowsFor(idx), "businesses")) = 1
          /\ RowsFor(idx)[1].table = "businesses"
          /\ \A j \in 2..Len(RowsFor(idx)) :
                RowsFor(idx)[j].business_id = RowsFor(idx)[1].id
    /\ \A j \in 1..Len(db) : db[j].cand <= idx
    /\ pc \in {"loop", "respond"} => Len(businesses_output) = idx

\* The write of the first candidate failed, its record is in the output, and
\* the write of the second candidate has committed.
C5_Witness ==
    /\ pc = "append" /\ idx = 2
    /\ ~StageRaised("persist")
    /\ RowsFor(1) = <<>> /\ RowsFor(2) # <<>>
    /\ Len(businesses_output) = 1

\* ------------------------------------------------------------------------
\* Properties of scrape_google_maps (specification SpecDiscovery)
\* ------------------------------------------------------------------------

StrictlyIncreasing(s) == \A i \in 1..Len(s) : \A j \in 1..Len(s) : i < j => s[i] < s[j]

\* C6: whatever the bound n and the number of listings, scrape_google_maps
\* returns at most n candidates, in the order of their listings on the page.
C6_AtMostBoundInOrder ==
    /\ gm_pc \in {"loop", "returned"} => Len(gm_loop.results) <= gm_max_results
    /\ gm_pc = "returned" =>
          /\ Len(gm_returned) <= gm_max_results
          /\ Len(gm_returned) = Len(gm_loop.origins)
          /\ StrictlyIncreasing(gm_loop.origins)
          /\ \A i \in 1..Len(gm_returned) :
                gm_returned[i] =
                    ExtractBusinessDetails(gm_env.listings[gm_loop.origins[i]].panel)

\* The page had more listings than the bound, and the bound cut the loop short.
C6_Witness ==
    /\ gm_pc = "returned" /\ gm_max_results = 2
    /\ Len(gm_returned) = 2
    /\ Len(gm_env.listings) > 2
    /\ gm_loop.over

HrefsOf(positions) == [i \in 1..Len(positions) |-> gm_env.listings[positions[i]].href]

Distinct(s) == \A i \in 1..Len(s) : \A j \in 1..Len(s) : i # j => s[i] # s[j]

\* The listing at position k is one a candidate must come from: every href up
\* to it could be read, its href is new, its click opened a panel with a name.
Eligible(listings, k) ==
    /\ \A j \in 1..k : listings[j].attr = "ok"
    /\ \A j \in 1..(k - 1) : listings[j].href # listings[k].href
    /\ listings[k].click = "ok"
    /\ listings[k].panel.h1 # ""

EligiblePositions(listings) ==
    SelectSeq([k \in 1..Len(listings) |-> k], LAMBDA k : Eligible(listings, k))

\* C7: no two candidates of a call come from listings with the same href; a
\* listing whose href was seen is not opened; a listing without a name gives no
\* candidate and takes no slot: the candidates are the first max_results
\* listings with a new href and a name.
C7_NoDuplicateListing ==
    /\ gm_pc \in {"loop", "returned"} =>
          /\ Distinct(HrefsOf(gm_loop.origins))
          /\ Distinct(HrefsOf(gm_loop.clicked))
          /\ \A i \in 1..Len(gm_loop.results) : gm_loop.results[i]["name"] # ""
    /\ gm_pc = "returned" =>
          gm_loop.origins = Take(EligiblePositions(gm_env.listings), gm_max_results)

\* With a bound of one: the first listing had no name, the second repeated its
\* href and was not opened, the third gave the candidate.
C7_Witness ==
    /\ gm_pc = "returned" /\ gm_max_results = 1
    /\ Len(gm_env.listings) = 3
    /\ gm_env.listings[1].click = "ok" /\ gm_env.listings[1].panel.h1 = ""
    /\ gm_env.listings[2].href = gm_env.listings[1].href
    /\ gm_loop.clicked = <<1, 3>>
    /\ gm_loop.origins = <<3>>
    /\ Len(gm_returned) = 1

\* ------------------------------------------------------------------------
\* Properties of scrape_website (specification SpecWebsite)
\* ------------------------------------------------------------------------

\* The fetch of the page, or the parsing of its markup, fails.
FetchOrParseFails(env) == ~env.playwright \/ env.fetch # "ok" \/ env.page.unparseable

\* C8: scrape_website never raises; when the fetch or the parsing fails it
\* returns the empty profile of the URL.
C8_NeverRaisesEmptyOnFailure ==
    ws_pc = "finished" =>
        /\ ws_outcome.exc = ""
        /\ FetchOrParseFails(ws_env) =>
              /\ ws_outcome.val["url"] = ws_url
              /\ ws_outcome.val["services"] = <<>>
              /\ ws_outcome.val["prices"] = <<>>
              /\ ws_outcome.val["team_members"] = <<>>
              /\ ws_outcome.val["h1_tags"] = <<>>
              /\ ws_outcome.val["images"] = <<>>
              /\ ws_outcome.val["links"] = <<>>
              /\ ws_outcome.val["cta_buttons"] = <<>>
              /\ ws_outcome.val["has_mobile_viewport"] = FALSE
              /\ ws_outcome.val["text_length"] = 0
              /\ ws_outcome.val["meta_title"] = ""
              /\ ws_outcome.val["meta_description"] = ""

\* The page was fetched and its parsing raised.
C8_Witness ==
    /\ ws_pc = "finished"
    /\ ws_env.playwright /\ ws_env.fetch = "ok" /\ ws_env.page.unparseable
    /\ ws_outcome.val = EmptyWebsiteData(ws_url)

\* ------------------------------------------------------------------------
\* Properties of analyze_business and grade_website (specification SpecClients)
\* ------------------------------------------------------------------------

\* C9: without the credential both clients return their empty result (the
\* assessment: no revenue streams, every other field null; the grade: every
\* score 0, every list empty) and issue no request.
C9_NoCredentialNoRequest ==
    cl_pc = "finished" /\ cl_key = "" =>
        /\ cl_outcome.requests = 0
        /\ cl_outcome.exc = ""
        /\ cl_client = "analysis" =>
              /\ cl_outcome.val["revenue_streams"] = JList(<<>>)
              /\ cl_outcome.val["estimated_revenue_tier"] = JNull
              /\ cl_outcome.val["pricing_strategy"] = JNull
              /\ cl_outcome.val["service_quality_score"] = JNull
              /\ cl_outcome.val["competitive_assessment"] = JNull
              /\ cl_outcome.val["niche_specific_insights"] = JNull
        /\ cl_client = "grade" =>
              /\ cl_outcome.val["total_score"] = PInt(0)
              /\ cl_outcome.val["design_score"] = PInt(0)
              /\ cl_outcome.val["seo_score"] = PInt(0)
              /\ cl_outcome.val["strengths"] = JList(<<>>)
              /\ cl_outcome.val["weaknesses"] = JList(<<>>)
              /\ cl_outcome.val["recommendations"] = JList(<<>>)

\* analyze_business was called without the credential, for a record and a
\* remote service that would have given an assessment.
C9_Witness ==
    /\ cl_pc = "finished" /\ cl_key = "" /\ cl_client = "analysis"
    /\ cl_input["prices"] = <<>>
    /\ cl_reply = Reply("response", 200, "content", <<"{analysis}">>)
    /\ cl_outcome.val = EmptyAnalysis

\* The reply to the request is a failure: a transport exception, a status
\* that is not success, a body without the envelope, or a content the parser
\* of the client cannot turn into its result.
FailedReply(client, reply) ==
    \/ reply.kind = "exception"
    \/ reply.status # 200
    \/ reply.body # "content"
    \/ (IF client = "analysis" THEN ParseAnalysis(reply.content)
        ELSE ParseGrade(reply.content)).exc # ""

\* C10: a client that got a failed reply to its request returns its empty
\* result, and no exception.
C10_FailedReplyGivesEmpty ==
    cl_pc = "finished" /\ cl_outcome.requests = 1 /\ FailedReply(cl_client, cl_reply) =>
        /\ cl_outcome.exc = ""
        /\ cl_outcome.val = (IF cl_client = "analysis" THEN EmptyAnalysis ELSE EmptyGrade)

\* C12: every grade grade_website returns has total_score in 0..100,
\* design_score in 0..50 and seo_score in 0..50.
C12_GradeScoresInRange ==
    cl_pc = "finished" /\ cl_client = "grade" /\ cl_outcome.exc = "" =>
        /\ cl_outcome.val["total_score"].jt = "int"
        /\ cl_outcome.val["total_score"].jv \in 0..100
        /\ cl_outcome.val["design_score"].jv \in 0..50
        /\ cl_outcome.val["seo_score"].jv \in 0..50

\* The price entries of the profile returned.
PriceEntries == ws_outcome.val["prices"]

\* The text within n characters before and after the match m of a text.
Window(text, m, n) ==
    SubSeq(text, (IF m.first - n > 1 THEN m.first - n ELSE 1),
                 (IF m.last + n < Len(text) THEN m.last + n ELSE Len(text)))

\* C16: the price list of a profile has at most 20 entries, no two of them with
\* the same price string, and the context of each is the text within 50
\* characters before and after a match of its price.
C16_PricesDeduplicatedCapped ==
    ws_pc = "finished" /\ ~FetchOrParseFails(ws_env) =>
        /\ Len(PriceEntries) <= 20
        /\ \A i \in 1..Len(PriceEntries) : \A j \in 1..Len(PriceEntries) :
              i # j => PriceEntries[i].price # PriceEntries[j].price
        /\ \A i \in 1..Len(PriceEntries) :
              \E k \in 1..Len(PriceMatches(ws_env.page.text, 1)) :
                 LET m == PriceMatches(ws_env.page.text, 1)[k]
                 IN  /\ PriceEntries[i].price = SubSeq(ws_env.page.text, m.first, m.last)
                     /\ PriceEntries[i].context = Strip(Window(ws_env.page.text, m, 50))

\* The anchors of the page fetched whose host is instagram.com or under it.
SocialAnchors ==
    SelectSeq(ws_env.page.anchors,
              LAMBDA a : a.host \in {"instagram.com", "www.instagram.com"})

\* C17: when the page has an anchor to instagram.com or a subdomain of it, the
\* profile carries the URL of the first one, under the key instagram_url that
\* the orchestrator reads for the social stage.
C17_ProfileCarriesSocialLink ==
    ws_pc = "finished" /\ ~FetchOrParseFails(ws_env) /\ SocialAnchors # <<>> =>
        /\ "instagram_url" \in DOMAIN ws_outcome.val
        /\ ws_outcome.val["instagram_url"] = SocialAnchors[1].href

\* ------------------------------------------------------------------------
\* Properties of the functions (specification SpecFunctions)
\* ------------------------------------------------------------------------

ObjectPayloads == {p \in DOMAIN Payloads : Payloads[p].jt = "obj"}

\* C11: for a payload that is a JSON object, the parser gives for the payload
\* wrapped in a fenced code block what it gives for the payload alone, the
\* fence markers on their own lines or on the line of the payload.
C11_FencedParsesAsPlain ==
    fn \in {"_parse_analysis", "_parse_grade"} /\ args.payload \in ObjectPayloads =>
        result.fenced = result.plain


\* The posts _calculate_engagement may count: the most recent twelve.
Counted == Take(args.posts, RecentPosts)

CountedLikes == SumOf([i \in 1..Len(Counted) |-> Counted[i].likes])

CountedComments == SumOf([i \in 1..Len(Counted) |-> Counted[i].comments])

Abs(x) == IF x < 0 THEN -x ELSE x

\* C13: the rate is 0.0 without followers and without posts; otherwise it is
\* (mean(likes) + mean(comments)) / followers * 100 over the most recent posts,
\* twelve at most, to the nearest hundredth; it is 12.0 for 1000 followers and
\* twelve posts of 100 likes and 20 comments.
C13_EngagementRate ==
    fn = "_calculate_engagement" =>
        /\ args.followers = 0 => result = 0
        /\ args.posts = <<>> => result = 0
        /\ args.followers # 0 /\ args.posts # <<>> /\ args.raise_at = 0 =>
              2 * Abs(result * Len(Counted) * args.followers
                      - 10000 * (CountedLikes + CountedComments))
                  <= Len(Counted) * args.followers
        /\ /\ args.followers = 1000 /\ args.raise_at = 0
           /\ args.posts = [i \in 1..RecentPosts |-> [likes |-> 100, comments |-> 20]]
           => result = 1200

\* A profile of 3 followers with a thirteenth post unlike the twelve before
\* it: the rate is that of the twelve.
C13_Witness ==
    /\ fn = "_calculate_engagement"
    /\ args.followers = 3 /\ args.raise_at = 0
    /\ Len(args.posts) = RecentPosts + 1
    /\ args.posts[1] = [likes |-> 1, comments |-> 2]
    /\ args.posts[RecentPosts + 1] = [likes |-> 100, comments |-> 20]
    /\ result = 10000


\* The words of a name: its runs of letters and digits, lower-cased.
RECURSIVE WordsOf(_, _)
WordsOf(text, word) ==
    IF text = <<>> THEN (IF word = <<>> THEN <<>> ELSE <<word>>)
    ELSE IF AlphaNumeric(Head(text)) THEN WordsOf(Tail(text), Append(word, LowerChar(Head(text))))
    ELSE (IF word = <<>> THEN <<>> ELSE <<word>>) \o WordsOf(Tail(text), <<>>)

RECURSIVE Concat(_)
Concat(words) == IF words = <<>> THEN <<>> ELSE Head(words) \o Concat(Tail(words))

IsCommonWord(word) == \E w \in 1..Len(CommonWords) : CommonWords[w] = word

\* The candidates the specification gives a name: the words joined, the words
\* that are no common word joined (if that differs and is not empty), the first 20 characters
\* (if there are more).
WantedUsernames(name) ==
    LET first == Concat(WordsOf(name, <<>>))
        second == Concat(SelectSeq(WordsOf(name, <<>>), LAMBDA w : ~IsCommonWord(w)))
    IN  <<first>>
        \o (IF second # first /\ second # <<>> THEN <<second>> ELSE <<>>)
        \o (IF Len(first) > 20 THEN <<SubSeq(first, 1, 20)>> ELSE <<>>)

\* C14: generate_instagram_usernames returns, in order, the name lower-cased
\* and stripped to letters and digits, then the name without its common-word
\* tokens if that differs, then the first 20 characters if there are more.
C14_UsernameCandidates ==
    fn = "generate_instagram_usernames" => result = WantedUsernames(args)


\* ------------------------------------------------------------------------
\* Properties of scrape_instagram (specification SpecInstagram)
\* ------------------------------------------------------------------------

\* The username the discovered URL names, <<>> if it names none.
ParsedFromUrl == ExtractInstagramUsernameFromUrl(ig_url)

\* C15: the usernames are looked up in list order; the first that resolves
\* gives the result and ends the lookups; a username that is not found, or
\* whose lookup fails, leads to the next; when none resolves the result is None
\* and nothing is raised; the generated usernames are tried only when the URL
\* gave no username.
C15_FirstResolvingCandidate ==
    /\ \A i \in 1..Len(ig_tried) : ig_tried[i] = i
    /\ Len(ig_tried) <= Len(ig_usernames)
    /\ \A i \in 1..(Len(ig_tried) - 1) : ig_world[i] # "profile"
    /\ ig_outcome.exc = ""
    /\ ig_pc = "returned" /\ ig_outcome.val # NoneObj =>
          /\ ig_tried # <<>>
          /\ ig_world[Len(ig_tried)] = "profile"
          /\ ig_outcome.val["username"] = ig_usernames[Len(ig_tried)]
    /\ ig_pc = "returned" /\ ig_outcome.val = NoneObj =>
          /\ Len(ig_tried) = Len(ig_usernames)
          /\ \A i \in 1..Len(ig_tried) : ig_world[i] # "profile"
    /\ ig_pc # "idle" /\ ParsedFromUrl # <<>> /\ ig_usernames # <<>> =>
          ig_usernames = <<ParsedFromUrl>>
    /\ ig_pc # "idle" /\ ParsedFromUrl = <<>> /\ ig_usernames # <<>> =>
          ig_usernames = GenerateInstagramUsernames(ig_name)

\* The URL named no username; the first generated username was not found, the
\* lookup of the second failed, the third resolved and gave the result.
C15_Witness ==
    /\ ig_pc = "returned"
    /\ ig_url = PostUrl
    /\ Len(ig_usernames) = 3
    /\ ig_world[1] = "not_found" /\ ig_world[2] = "connection" /\ ig_world[3] = "profile"
    /\ ig_tried = <<1, 2, 3>>
    /\ ig_outcome.val # NoneObj
    /\ ig_outcome.val["username"] = ig_usernames[3]


\* C19: parsing the same page markup for the same URL twice yields identical
\* profile fields, the deduplicated and capped lists having the same members
\* in the same order.
C19_ExtractionDeterministic ==
    fn = "_parse_website_content" => result.first = result.second

\* ---------------------------------------------------------------------------
\* Properties of the stored analysis
\* ---------------------------------------------------------------------------

\* The revenue-stream list of the record appended for candidate cand.
AppendedStreams(cand) == businesses_output[cand]["analysis"]["revenue_streams"]

StoredAnalyses == RowsOf(db, "analyses")

\* C18: every revenue-stream list the persistence step stored, the empty list
\* included, is read back by Analysis.to_dict from its stored text as a list
\* equal to the original, in order and content.
C18_RevenueStreamsRoundTrip ==
    \A n \in 1..Len(StoredAnalyses) :
        LET row == StoredAnalyses[n]
        IN  (row.cand <= Len(businesses_output)
             /\ "revenue_streams" \in DOMAIN businesses_output[row.cand]["analysis"]
             /\ AppendedStreams(row.cand).jt = "list")
            => AnalysisToDict(row).revenue_streams = AppendedStreams(row.cand)

C18_Witness ==
    /\ pc = "done"
    /\ \E n \in 1..Len(StoredAnalyses) :
         /\ StoredAnalyses[n].cand <= Len(businesses_output)
         /\ AppendedStreams(StoredAnalyses[n].cand)
                = JList(<<JS("memberships"), JS("retail")>>)
         /\ AnalysisToDict(StoredAnalyses[n]).revenue_streams
                = JList(<<JS("memberships"), JS("retail")>>)


\* ---------------------------------------------------------------------------
\* Properties of the order of the stages
\* ---------------------------------------------------------------------------

\* The stages of one candidate, in the order of lines 118-167.
StageOrder == <<"website", "grade", "instagram", "analysis", "persist">>

PositionIn(order, stage) == CHOOSE k \in 1..Len(order) : order[k] = stage

\* The stages in calls are stages of order, each at most once, in its order.
InOrderOnce(calls, order) ==
    /\ \A i \in 1..Len(calls) : calls[i] \in SeqRange(order)
    /\ \A i, j \in 1..Len(calls) :
          i < j => PositionIn(order, calls[i]) < PositionIn(order, calls[j])

\* The stages called before the handler is at stage pc for a candidate.
StagesBefore(at) ==
    {StageOrder[k] : k \in {k \in 1..Len(StageOrder) :
                               at = "append" \/ k < PositionIn(StageOrder, at)}}

\* C20: discovery runs exactly once and before any enrichment; the stages of a
\* candidate run in the order website, grading, social, assessment,
\* persistence, append, each at most once; and no stage of a candidate starts
\* before the record of the candidate before it was appended to the output.
C20_StagesInOrder ==
    /\ Len(discovery_calls) <= 1
    /\ pc \in {"idle", "discover", "error500"} \/ (Answered /\ ~Validated) =>
          ran = <<>> /\ businesses_output = <<>> /\ discovery_calls = <<>>
    /\ InOrderOnce(StagesRan, StageOrder)
    /\ pc \in SeqRange(StageOrder) \cup {"append"} =>
          /\ Len(discovery_calls) = 1
          /\ idx \in 1..Len(raw_businesses)
          /\ Len(businesses_output) = idx - 1
          /\ SeqRange(StagesRan) \subseteq StagesBefore(pc)
    /\ pc = "append" =>
          /\ StagesRan # <<>> /\ StagesRan[Len(StagesRan)] = "persist"
          /\ {"instagram", "analysis", "persist"} \subseteq SeqRange(StagesRan)
    /\ pc \in {"loop", "respond"} =>
          Len(discovery_calls) = 1 /\ Len(businesses_output) = idx
    /\ Answered /\ Validated =>
          Len(discovery_calls) = 1 /\ Len(businesses_output) = Len(raw_businesses)

\* The second candidate is about to be appended after all five of its stages
\* were called, in order, the first candidate being in the output.
C20_Witness ==
    /\ pc = "append" /\ idx = 2
    /\ StagesRan = StageOrder
    /\ Len(businesses_output) = 1
    /\ Len(discovery_calls) = 1


\* ---------------------------------------------------------------------------
\* Properties of the rows of a batch
\* ---------------------------------------------------------------------------

IsPrefix(s, t) == Len(s) <= Len(t) /\ SubSeq(t, 1, Len(s)) = s

CountIf(present) == IF present THEN 1 ELSE 0

\* The rows of candidate c are none, or its business row with exactly the
\* children its record calls for, each child pointing at the business row.
RowsComplete(c) ==
    LET rows == RowsFor(c)
        record == businesses_output[c]
        own == RowsOf(rows, "businesses")
    IN  \/ rows = <<>>
        \/ /\ Len(own) = 1
           /\ Len(RowsOf(rows, "instagram_data")) = CountIf(Truthy(record["instagram"]))
           /\ Len(RowsOf(rows, "analyses")) = CountIf(Truthy(record["analysis"]))
           /\ \A j \in 1..Len(rows) :
                 rows[j].table # "businesses" => rows[j].business_id = own[1].id

\* No two business rows share an id, and no business row has two children of
\* one table.
ChildrenUnique ==
    /\ \A i, j \in 1..Len(db) :
          (i # j /\ db[i].table = db[j].table) =>
              IF db[i].table = "businesses" THEN db[i].id # db[j].id
              ELSE db[i].business_id # db[j].business_id
    /\ \A i \in 1..Len(db) :
          db[i].table # "businesses" =>
              \E j \in 1..Len(db) :
                  db[j].table = "businesses" /\ db[j].id = db[i].business_id

BatchRowsWhole ==
    /\ \A c \in 1..Len(businesses_output) : RowsComplete(c)
    /\ ChildrenUnique
    /\ pc \in SeqRange(StageOrder) => session = <<>>

\* C21: the write of each candidate is its own transaction: every step of the
\* handler leaves, for every candidate in the output, either its business row
\* with its social child (exactly when a profile was resolved) and its
\* assessment child (exactly when the assessment is non-empty) or no row at
\* all; it keeps the rows committed before it as they were; and no business
\* row has two children of one kind.
C21_OwnTransaction == [][IsPrefix(db, db') /\ BatchRowsWhole']_vars

\* After the batch the first candidate has its business row and both children,
\* and the second, whose write failed although it had a profile and an
\* assessment, has no row.
C21_Witness ==
    /\ pc = "done" /\ Len(businesses_output) = 2
    /\ Len(RowsFor(1)) = 3
    /\ RowsFor(2) = <<>>
    /\ Truthy(businesses_output[2]["instagram"])
    /\ Truthy(businesses_output[2]["analysis"])


\* ---------------------------------------------------------------------------
\* Properties of the assessment stage
\* ---------------------------------------------------------------------------

\* The calls of the assessment stage for the current candidate.
AnalysisCalls == SelectSeq(ran, LAMBDA call : call.stage = "analysis")

\* C22: with a credential configured, for every record handed to the
\* assessment stage, a record with extracted prices, services or team members
\* included, analyze_business sends exactly one request to the scoring service.
C22_OneRequestPerRecord ==
    (pc \in {"persist", "append"} /\ api_key # "") =>
        Len(AnalysisCalls) = 1 /\ AnalysisCalls[1].requests = 1

====
